---------------------------- MODULE Spec2Model ----------------------------
(***************************************************************************)
(* A state-machine model of Super Bomberman 6: the client GameEngine       *)
(* (bombs, explosions, chain reactions, damage, movement, level loading,   *)
(* pause), the enemy AI, the BossSystem state machine, the fallback map    *)
(* generator, the multiplayer server's rooms and bomb timers, the tRPC     *)
(* rooms router and the A* pathfinder.                                     *)
(*                                                                         *)
(* Each subsystem has its own specifications (SpecBoss; SpecEngine,        *)
(* SpecHazard, SpecMove, SpecSplit, SpecCarry, SpecLoad, SpecEvade,        *)
(* SpecPause; SpecServer, SpecRooms; SpecLobby, and SpecJoin for calls of  *)
(* rooms.join that overlap; SpecPath; SpecBlast for single explosions;     *)
(* SpecMap for generated maps); the variable `mode` says which subsystem a *)
(* behaviour exercises, and the variables of the other subsystems stay at  *)
(* rest.                                                                   *)
(***************************************************************************)
EXTENDS Integers, Sequences, FiniteSets, TLC

VARIABLES
  mode,      \* which subsystem this behaviour exercises
  boss,      \* the Boss object shared by BossSystem.boss and GameEngine.state.boss
  engScore,  \* GameEngine.state.score
  events,    \* number of times each callback / game event has fired
  lastOp,    \* the operation performed by the last step
  rooms,       \* server: the room registry (roomId -> GameRoom)
  playerRooms, \* server: socketId -> roomId
  sockets,     \* server: each socket's connection state (new, open, closed)
  timers,      \* server: pending setTimeout callbacks, in scheduling order
  nextId,      \* server: the next fresh room id and bomb id (nanoid)
  sent,        \* server: messages emitted so far (counted per kind)
  handled,     \* server: number of socket messages handled so far
  eng,         \* client: the GameEngine and the objects its callbacks hold
  inputs,      \* client: number of moves, pick-ups and pauses made so far
  lobby,       \* tRPC rooms router: the game_rooms and room_players tables, last call
  search,      \* findPath: its arguments, its locals and its position
  fcall        \* a function applied on its own: its arguments, state and results

bossVars == <<boss, engScore, events>>
serverVars == <<rooms, playerRooms, sockets, timers, nextId, sent, handled>>
clientVars == <<eng, inputs>>
lobbyVars == <<lobby>>
pathVars == <<search>>
fcallVars == <<fcall>>
vars == <<mode, lastOp, bossVars, serverVars, clientVars, lobbyVars, pathVars, fcallVars>>
\* what the steps of one subsystem leave alone
notBossVars == <<serverVars, clientVars, lobbyVars, pathVars, fcallVars>>
notServerVars == <<bossVars, clientVars, lobbyVars, pathVars, fcallVars>>
notClientVars == <<bossVars, serverVars, lobbyVars, pathVars, fcallVars>>
notLobbyVars == <<bossVars, serverVars, clientVars, pathVars, fcallVars>>
notPathVars == <<bossVars, serverVars, clientVars, lobbyVars, fcallVars>>
notFcallVars == <<bossVars, serverVars, clientVars, lobbyVars, pathVars>>

(***************************************************************************)
(* Time.  The engine advances in fixed steps of 1000/60 ms, which is not a *)
(* whole number of milliseconds; every duration of the model is therefore  *)
(* kept in thirds of a millisecond (1000/60 ms = 50 thirds).               *)
(***************************************************************************)
TimeScale == 3

Ms(t) == t * TimeScale

fixedDeltaTime == (1000 * TimeScale) \div 60

(***************************************************************************)
(* Bounds of the model.                                                    *)
(***************************************************************************)
\* largest damage value passed to BossSystem.damageBoss
MaxDamage == 3
\* number of intro dialogue lines of the boss descriptor
NDialogue == 1
\* BossSystem.update is called with deltaTime = BossFrameMs milliseconds
BossFrameMs == 500
\* number of fixed steps the accumulator loop of gameLoop runs in one frame
StepsPerFrame == 15
\* largest number of steps of one frame in which a hazard overlaps the boss
MaxHits == 2

(***************************************************************************)
(* BossSystem                                                              *)
(***************************************************************************)
BossTypes == {"king_slime", "dark_knight", "fire_dragon", "shadow_lord", "demon_king"}

BOSS_CONFIGS ==
  [t \in BossTypes |->
     CASE t = "king_slime"  -> [maxHealth |-> 10, maxPhases |-> 2,
                                vulnerabilityDuration |-> 3000, attackCooldown |-> 2000]
       [] t = "dark_knight" -> [maxHealth |-> 15, maxPhases |-> 3,
                                vulnerabilityDuration |-> 2500, attackCooldown |-> 1800]
       [] t = "fire_dragon" -> [maxHealth |-> 20, maxPhases |-> 3,
                                vulnerabilityDuration |-> 2000, attackCooldown |-> 1500]
       [] t = "shadow_lord" -> [maxHealth |-> 25, maxPhases |-> 4,
                                vulnerabilityDuration |-> 1800, attackCooldown |-> 1200]
       [] t = "demon_king"  -> [maxHealth |-> 40, maxPhases |-> 5,
                                vulnerabilityDuration |-> 1500, attackCooldown |-> 1000]]

BossStates == {"intro", "idle", "attacking", "vulnerable", "transition", "dying", "defeated"}

NoBoss == [type |-> "none"]

\* BossSystem.createBoss(type, position, dialogue)
createBoss(type, nDialogue) ==
  [type              |-> type,
   active            |-> TRUE,
   health            |-> BOSS_CONFIGS[type].maxHealth,
   maxHealth         |-> BOSS_CONFIGS[type].maxHealth,
   phase             |-> 1,
   maxPhases         |-> BOSS_CONFIGS[type].maxPhases,
   attackTimer       |-> 0,
   attackCooldown    |-> Ms(BOSS_CONFIGS[type].attackCooldown),
   isVulnerable      |-> FALSE,
   vulnerabilityTimer |-> 0,
   state             |-> "intro",
   dialogueLen       |-> nDialogue,
   currentDialogue   |-> 0,
   points            |-> BOSS_CONFIGS[type].maxHealth * 500]

Min(a, b) == IF a <= b THEN a ELSE b
Max(a, b) == IF a >= b THEN a ELSE b

\* handleIntro: one dialogue line per update, then idle
handleIntro(b) ==
  IF b.currentDialogue < b.dialogueLen
    THEN [b EXCEPT !.currentDialogue = @ + 1]
    ELSE [b EXCEPT !.state = "idle", !.attackTimer = b.attackCooldown]

\* handleIdle: count the attack timer down; on expiry attack.  (The pattern
\* drawn at random for the attack only shapes the attack descriptor handed to
\* onAttack; it is not part of the modelled boss record.)
handleIdle(b, dt) ==
  LET t == b.attackTimer - dt IN
  IF t <= 0
    THEN [b EXCEPT !.attackTimer = t, !.state = "attacking"]
    ELSE [b EXCEPT !.attackTimer = t]

\* handleAttacking: execute the attack once, then become vulnerable
handleAttacking(b) ==
  [b EXCEPT !.state = "vulnerable", !.isVulnerable = TRUE,
            !.vulnerabilityTimer = Ms(BOSS_CONFIGS[b.type].vulnerabilityDuration)]

handleVulnerable(b, dt) ==
  LET t == b.vulnerabilityTimer - dt IN
  IF t <= 0
    THEN [b EXCEPT !.vulnerabilityTimer = t, !.isVulnerable = FALSE,
                   !.state = "idle", !.attackTimer = b.attackCooldown]
    ELSE [b EXCEPT !.vulnerabilityTimer = t]

handleTransition(b, dt) ==
  LET t == b.attackTimer - dt IN
  IF t <= 0
    THEN [b EXCEPT !.state = "idle", !.attackTimer = b.attackCooldown]
    ELSE [b EXCEPT !.attackTimer = t]

handleDying(b, dt) ==
  LET t == b.attackTimer - dt IN
  IF t <= 0
    THEN [b EXCEPT !.attackTimer = t, !.state = "defeated", !.active = FALSE]
    ELSE [b EXCEPT !.attackTimer = t]

\* BossSystem.update(boss, players, grid, deltaTime): the boss after the call
BossSystem_update(b, dt) ==
  IF ~b.active THEN b
  ELSE CASE b.state = "intro"      -> handleIntro(b)
         [] b.state = "idle"       -> handleIdle(b, dt)
         [] b.state = "attacking"  -> handleAttacking(b)
         [] b.state = "vulnerable" -> handleVulnerable(b, dt)
         [] b.state = "transition" -> handleTransition(b, dt)
         [] b.state = "dying"      -> handleDying(b, dt)
         [] OTHER                  -> b

(***************************************************************************)
(* The phase threshold test of damageBoss,                                 *)
(*     health / maxHealth <= 1 - phase / maxPhases,                        *)
(* is evaluated in IEEE-754 doubles.  Over BOSS_CONFIGS (every phase,      *)
(* every integer health from -10 to maxHealth) the double result equals    *)
(* the exact rational comparison except where 1 - 4/5 evaluates to         *)
(* 0.19999999999999996 and 8/40 to 0.2: FloatDiverges lists that point.    *)
(***************************************************************************)
ExactAtOrBelowThreshold(health, maxHealth, phase, maxPhases) ==
  health * maxPhases <= (maxPhases - phase) * maxHealth

FloatDiverges == {<<8, 40, 4, 5>>}

healthAtOrBelowThreshold(health, maxHealth, phase, maxPhases) ==
  IF <<health, maxHealth, phase, maxPhases>> \in FloatDiverges
    THEN ~ExactAtOrBelowThreshold(health, maxHealth, phase, maxPhases)
    ELSE ExactAtOrBelowThreshold(health, maxHealth, phase, maxPhases)

\* damageBoss without its vulnerability guard
damageBoss_Unguarded(b, damage) ==
  IF b = NoBoss THEN b
  ELSE
    LET b1 == [b EXCEPT !.health = @ - damage]
    IN IF b1.health <= 0
         THEN [b1 EXCEPT !.state = "dying", !.attackTimer = Ms(3000), !.isVulnerable = FALSE]
         ELSE b1

\* BossSystem.damageBoss(damage): the boss after the call
BossSystem_damageBoss(b, damage) ==
  IF b = NoBoss \/ ~b.isVulnerable THEN b
  ELSE
    LET b1 == [b EXCEPT !.health = @ - damage]
        b2 == IF /\ healthAtOrBelowThreshold(b1.health, b1.maxHealth, b1.phase, b1.maxPhases)
                 /\ b1.phase < b1.maxPhases
                THEN [b1 EXCEPT !.phase = @ + 1, !.state = "transition",
                                !.attackTimer = Ms(2000), !.isVulnerable = FALSE]
                ELSE b1
    IN IF b2.health <= 0
         THEN [b2 EXCEPT !.state = "dying", !.attackTimer = Ms(3000),
                         !.isVulnerable = FALSE]
         ELSE b2

(***************************************************************************)
(* GameEngine: the boss part of one fixed simulation step                  *)
(***************************************************************************)
\* GameEngine.updateBoss(deltaTime)
GameEngine_updateBoss(b, dt) ==
  IF b = NoBoss \/ ~b.active THEN b
  ELSE IF b.attackCooldown > 0 THEN [b EXCEPT !.attackCooldown = @ - dt] ELSE b

\* GameEngine.damageBoss(): health--, and at health <= 0 the boss is made inactive
GameEngine_damageBoss(b) ==
  IF b = NoBoss THEN b
  ELSE LET b1 == [b EXCEPT !.health = @ - 1]
       IN IF b1.health <= 0 THEN [b1 EXCEPT !.active = FALSE] ELSE b1

\* checkCollisions, "Boss vs Explosion": `hit` says whether some explosion
\* tile overlaps the boss's bounds in this step
checkCollisionsBoss(b, hit) ==
  IF b # NoBoss /\ b.active /\ hit THEN GameEngine_damageBoss(b) ELSE b

(***************************************************************************)
(* Events                                                                  *)
(***************************************************************************)
EventNames == {"onDefeated", "bossDefeated"}

NoEvents == [e \in EventNames |-> 0]

Emit(ev, name, n) == [ev EXCEPT ![name] = @ + n]

(***************************************************************************)
(* Multiplayer server: rooms, players, bombs (src/server/multiplayer.ts)   *)
(***************************************************************************)
\* number of sockets that connect
NSockets == 2
\* number of room ids (nanoid(8)) handed out: MaxRooms in the behaviours of
\* the room registry alone, MaxGameRooms in those that also play the game
MaxRooms == 2
MaxGameRooms == 1
\* number of bomb ids (nanoid(6)) handed out
MaxBombIds == 2
\* largest maxPlayers a create_room request asks for
MaxCapacity == 2
\* collect_powerup raises maxBombs / fireRange up to these values
MaxMaxBombs == 2
MaxFireRange == 2
\* clients report positions in the cells (1,1) .. (ArenaW,1)
ArenaW == 3
\* message counters saturate at this value
MaxCount == 2
\* number of socket messages the clients send in one behaviour
MaxRequests == 6

Sockets == 1 .. NSockets
RoomIds == 1 .. MaxRooms
BombIds == 1 .. MaxBombIds

GRID_W == 15
GRID_H == 13

PlayCells == {<<x, 1>> : x \in 1 .. ArenaW}

\* generateGrid without the walls of the grid pattern
IsWallCell_BorderOnly(x, y, width, height) ==
  x = 0 \/ x = width - 1 \/ y = 0 \/ y = height - 1

\* generateGrid: the cells that are always solid wall
IsWallCell(x, y, width, height) ==
  \/ x = 0 \/ x = width - 1 \/ y = 0 \/ y = height - 1
  \/ (x % 2 = 0 /\ y % 2 = 0)

\* generateGrid: the corner spawn zones, always empty
IsSpawnZone(x, y, width, height) ==
  \/ (x <= 2 /\ y <= 2)
  \/ (x >= width - 3 /\ y <= 2)
  \/ (x <= 2 /\ y >= height - 3)
  \/ (x >= width - 3 /\ y >= height - 3)

\* generateGrid: the cells that get a destructible block with probability 0.7;
\* the model draws the blocks among those of PlayCells and leaves every other
\* such cell empty
BlockCandidates ==
  {c \in PlayCells : /\ ~IsWallCell(c[1], c[2], GRID_W, GRID_H)
                     /\ ~IsSpawnZone(c[1], c[2], GRID_W, GRID_H)}

\* room.grid: [] until start_game, afterwards generateGrid(15, 13), kept as
\* the set of cells holding a destructible block (2); walls (1) follow from
\* IsWallCell and every other cell is empty (0)
NoGrid == [generated |-> FALSE, blocks |-> {}]

generateGrid(blocks) == [generated |-> TRUE, blocks |-> blocks]

\* room.grid[y] && room.grid[y][x]
GridAt(grid, x, y) ==
  IF ~grid.generated THEN 0
  ELSE IF IsWallCell(x, y, GRID_W, GRID_H) THEN 1
  ELSE IF <<x, y>> \in grid.blocks THEN 2
  ELSE 0

NoRoom == [id |-> 0]

\* the Player record built by create_room (slot 0, ready) and join_room
NewPlayer(sock, slot, ready) ==
  [id |-> sock, slot |-> slot,
   x |-> IF slot \in {0, 2} THEN 1 ELSE 13,
   y |-> IF slot \in {0, 1} THEN 1 ELSE 11,
   isAlive |-> TRUE, maxBombs |-> 1, fireRange |-> 1, isReady |-> ready]

\* Map helpers: a Map is kept as the sequence of its values in insertion order
MapHas(m, id) == \E i \in 1 .. Len(m) : m[i].id = id
MapGet(m, id) == m[CHOOSE i \in 1 .. Len(m) : m[i].id = id]
MapSet(m, v) ==
  IF MapHas(m, v.id)
    THEN [i \in 1 .. Len(m) |-> IF m[i].id = v.id THEN v ELSE m[i]]
    ELSE Append(m, v)
MapDelete(m, id) == SelectSeq(m, LAMBDA v : v.id # id)

Inc(n) == Min(n + 1, MaxCount)

(***************************************************************************)
(* explodeBomb(io, roomId, bombId)                                         *)
(***************************************************************************)
\* the tiles of one arm of the blast, from step i on
RECURSIVE ArmTiles(_, _, _, _, _)
ArmTiles(grid, bomb, dx, dy, i) ==
  LET tx == bomb.x + dx * i
      ty == bomb.y + dy * i
  IN IF i > bomb.range THEN {}
     ELSE IF tx < 0 \/ tx >= GRID_W \/ ty < 0 \/ ty >= GRID_H THEN {}
     ELSE IF GridAt(grid, tx, ty) = 1 THEN {}
     ELSE IF GridAt(grid, tx, ty) = 2 /\ bomb.type # "pierce" THEN {<<tx, ty>>}
     ELSE {<<tx, ty>>} \cup ArmTiles(grid, bomb, dx, dy, i + 1)

\* the four arms when every bomb pierces
armsTiles_AllPierce(grid, bomb) ==
  ArmTiles(grid, [bomb EXCEPT !.type = "pierce"], 0, -1, 1)
    \cup ArmTiles(grid, [bomb EXCEPT !.type = "pierce"], 0, 1, 1)
    \cup ArmTiles(grid, [bomb EXCEPT !.type = "pierce"], -1, 0, 1)
    \cup ArmTiles(grid, [bomb EXCEPT !.type = "pierce"], 1, 0, 1)

\* the tiles of the four arms (up, down, left, right)
armsTiles(grid, bomb) ==
  ArmTiles(grid, bomb, 0, -1, 1) \cup ArmTiles(grid, bomb, 0, 1, 1)
    \cup ArmTiles(grid, bomb, -1, 0, 1) \cup ArmTiles(grid, bomb, 1, 0, 1)

\* explosionTiles without the bomb's own tile
explosionTiles_NoCentre(grid, bomb) == armsTiles(grid, bomb)

explosionTiles(grid, bomb) == {<<bomb.x, bomb.y>>} \cup armsTiles(grid, bomb)

\* every block tile an arm of the blast reaches is destroyed (the bomb's own
\* tile is never examined)
gridAfterBlast(grid, bomb) ==
  [grid EXCEPT !.blocks = @ \ armsTiles(grid, bomb)]

\* the timer callbacks: setTimeout(() => explodeBomb(io, roomId, bombId), delay)
Timer(rid, bid, delay) == [room |-> rid, bomb |-> bid, delay |-> delay]

\* explodeBomb without room.bombs.delete(bombId)
explodeBomb_KeepsBomb(rs, rid, bid) ==
  IF rs[rid] = NoRoom THEN [outcome |-> "no_room", rooms |-> rs, scheduled |-> <<>>]
  ELSE IF ~MapHas(rs[rid].bombs, bid)
    THEN [outcome |-> "no_bomb", rooms |-> rs, scheduled |-> <<>>]
  ELSE
    LET room  == rs[rid]
        bomb  == MapGet(room.bombs, bid)
        rest  == room.bombs
        tiles == explosionTiles(room.grid, bomb)
        hit(p) == IF p.isAlive /\ <<p.x, p.y>> \in tiles
                    THEN [p EXCEPT !.isAlive = FALSE] ELSE p
        chained == SelectSeq(rest, LAMBDA b : <<b.x, b.y>> \in tiles)
    IN [outcome |-> "exploded",
        rooms |-> [rs EXCEPT ![rid] =
                     [room EXCEPT !.bombs = rest,
                                  !.grid = gridAfterBlast(room.grid, bomb),
                                  !.players = [i \in 1 .. Len(room.players) |->
                                                 hit(room.players[i])]]],
        scheduled |-> [i \in 1 .. Len(chained) |-> Timer(rid, chained[i].id, 100)]]

\* what explodeBomb does to the registry: "none" when the room or the bomb
\* is gone, otherwise the room after the blast, the chain timers it
\* schedules and the bomb_exploded broadcast
explodeBomb(rs, rid, bid) ==
  IF rs[rid] = NoRoom THEN [outcome |-> "no_room", rooms |-> rs, scheduled |-> <<>>]
  ELSE IF ~MapHas(rs[rid].bombs, bid)
    THEN [outcome |-> "no_bomb", rooms |-> rs, scheduled |-> <<>>]
  ELSE
    LET room  == rs[rid]
        bomb  == MapGet(room.bombs, bid)
        rest  == MapDelete(room.bombs, bid)
        tiles == explosionTiles(room.grid, bomb)
        hit(p) == IF p.isAlive /\ <<p.x, p.y>> \in tiles
                    THEN [p EXCEPT !.isAlive = FALSE] ELSE p
        chained == SelectSeq(rest, LAMBDA b : <<b.x, b.y>> \in tiles)
    IN [outcome |-> "exploded",
        rooms |-> [rs EXCEPT ![rid] =
                     [room EXCEPT !.bombs = rest,
                                  !.grid = gridAfterBlast(room.grid, bomb),
                                  !.players = [i \in 1 .. Len(room.players) |->
                                                 hit(room.players[i])]]],
        scheduled |-> [i \in 1 .. Len(chained) |-> Timer(rid, chained[i].id, 100)]]

NoSent == [bomb_exploded |-> [b \in BombIds |-> 0],
           game_over |-> [r \in RoomIds |-> 0]]

(***************************************************************************)
(* Client GameEngine (src/client/src/game/engine/GameEngine.ts)            *)
(***************************************************************************)
\* number of bombs (Bomb objects) created in one behaviour
MaxEngineBombs == 2
\* number of GameComponent.loadLevel calls in one behaviour
MaxLoads == 2
\* number of movePlayer calls that move a player, and of power-ups picked
\* up, in one behaviour
MaxMoves == 1
MaxPickups == 1
\* the levels GameComponent.loadLevel is called for
LoadedLevels == {1}
\* the players that receive input are the first InputPlayers of state.players
InputPlayers == 2
\* movePlayer: the distances speed * (deltaTime / 16.67) the frame times
\* produce are SmallStep or LargeStep pixels
SmallStep == 2
LargeStep == 48
\* in the behaviours of walking alone: the number of movePlayer calls that
\* move a player, the number of moveEnemy calls, and the distances walked
MaxWalks == 1
MaxEnemyMoves == 1
WalkSteps == {SmallStep, LargeStep}
\* collectPowerUp raises maxBombs up to this value
MaxEngineMaxBombs == 2
\* one gameLoop frame drains FrameSteps fixed steps from the accumulator
FrameSteps == 90
\* number of times the pause is toggled in one behaviour
MaxPauses == 2

TILE_SIZE == 48
GRID_WIDTH == 15
GRID_HEIGHT == 13
PLAYER_LIVES == 3
PLAYER_INVINCIBILITY_TIME == 2000
BOMB_TIMER == 3000
BOMB_DEFAULT_RANGE == 2
BOMB_DEFAULT_COUNT == 1
EXPLOSION_DURATION == 500
\* player.bounds.width = TILE_SIZE * 0.75
PlayerSize == (TILE_SIZE * 3) \div 4
\* the timer of a remote bomb
Infinity == 1000000

EngineBombIds == 1 .. MaxEngineBombs
MoveSteps == {LargeStep, LargeStep + SmallStep}

gridToPixel(c) == c * TILE_SIZE
pixelToGrid(v) == v \div TILE_SIZE

\* LevelData.createGrid: walls, the four spawn areas, random blocks
LevelTile(col, row, blocks) ==
  IF IsWallCell(col, row, GRID_WIDTH, GRID_HEIGHT) THEN "WALL"
  ELSE IF IsSpawnZone(col, row, GRID_WIDTH, GRID_HEIGHT) THEN "SPAWN"
  ELSE IF <<col, row>> \in blocks THEN "BLOCK"
  ELSE "EMPTY"

\* the cells of createGrid that hold a block with probability blockDensity;
\* the model draws the blocks of a level among those of row 1 next to the
\* top-right spawn area and leaves every other such cell empty
LevelBlockCandidates == {<<GRID_WIDTH - 4, 1>>}

\* state.grid: [] before the first loadLevel, afterwards the tiles built from
\* the level's grid, kept as the set of cells whose type is still BLOCK
EmptyGrid == [loaded |-> FALSE, blocks |-> {}]

isValidPosition(grid, col, row) ==
  /\ row >= 0 /\ row < (IF grid.loaded THEN GRID_HEIGHT ELSE 0)
  /\ col >= 0 /\ col < (IF grid.loaded THEN GRID_WIDTH ELSE 0)

\* this.state.grid[row][col].type
TileType(grid, col, row) == LevelTile(col, row, grid.blocks)

NoBomb == [id |-> 0]

\* the players' spawn cells of GameComponent.loadLevel
spawnPositions == << <<1, 1>>, <<13, 1>>, <<1, 11>>, <<13, 11>> >>

\* persistentPlayerStats entry
Stats(p) == [maxBombs |-> p.maxBombs, fireRange |-> p.fireRange, bombType |-> p.bombType]
NoStats == [maxBombs |-> 0]

\* createPlayer(playerIndex, startPosition), restorePlayerStats included
createPlayer(id, playerIndex, start, saved) ==
  LET fresh == [id |-> id, playerIndex |-> playerIndex,
                x |-> gridToPixel(start[1]), y |-> gridToPixel(start[2]),
                col |-> start[1], row |-> start[2],
                lives |-> PLAYER_LIVES, maxBombs |-> BOMB_DEFAULT_COUNT,
                fireRange |-> BOMB_DEFAULT_RANGE, activeBombs |-> 0,
                bombType |-> "normal", isInvincible |-> FALSE,
                invincibilityTimer |-> 0, isDead |-> FALSE]
  IN IF saved[playerIndex] = NoStats THEN fresh
     ELSE [fresh EXCEPT !.maxBombs = saved[playerIndex].maxBombs,
                        !.fireRange = saved[playerIndex].fireRange,
                        !.bombType = saved[playerIndex].bombType]

\* createInitialState(), together with the objects the engine's callbacks
\* keep alive: the Bomb objects (bombObjs), the pending setTimeout callbacks
\* (timeouts), persistentPlayerStats (saved) and the events emitted so far
createInitialState ==
  [state |-> "menu", currentLevel |-> 1, isPaused |-> FALSE, grid |-> EmptyGrid,
   players |-> <<>>, bombs |-> <<>>, explosions |-> <<>>, enemies |-> <<>>,
   score |-> 0]

NoEngineEvents ==
  [bombExploded |-> [b \in EngineBombIds |-> 0], levelComplete |-> 0, gameOver |-> 0,
   bombPlaced |-> 0]

NewEngine ==
  [st |-> createInitialState,
   bombObjs |-> [b \in EngineBombIds |-> NoBomb],
   timeouts |-> <<>>,
   saved |-> [i \in 0 .. 3 |-> NoStats],
   emitted |-> NoEngineEvents,
   blasts |-> <<>>,
   isMultiplayer |-> FALSE, loads |-> 0,
   nextBomb |-> 1, nextPlayer |-> 1, nextEnemy |-> 1]

\* index of the player with the given id in state.players, 0 if none
PlayerIx(st, id) ==
  IF \E i \in 1 .. Len(st.players) : st.players[i].id = id
    THEN CHOOSE i \in 1 .. Len(st.players) : st.players[i].id = id
    ELSE 0

\* the corners of the player hitbox canMoveToPosition examines
Corners(x, y) ==
  LET margin == 2 IN
  {<<x + margin, y + margin>>, <<x + PlayerSize - margin, y + margin>>,
   <<x + margin, y + PlayerSize - margin>>,
   <<x + PlayerSize - margin, y + PlayerSize - margin>>}

\* canMoveToPosition(x, y, player)
canMoveToPosition(e, x, y, player) ==
  LET cells == {<<pixelToGrid(c[1]), pixelToGrid(c[2])>> : c \in Corners(x, y)}
      blocking(b) ==
        /\ ~(e.bombObjs[b].ownerId = player.id
             /\ player.col = e.bombObjs[b].col /\ player.row = e.bombObjs[b].row)
        /\ <<e.bombObjs[b].col, e.bombObjs[b].row>> \in cells
  IN /\ \A c \in cells :
          /\ isValidPosition(e.st.grid, c[1], c[2])
          /\ TileType(e.st.grid, c[1], c[2]) \notin {"WALL", "BLOCK"}
     /\ \A i \in 1 .. Len(e.st.bombs) : ~blocking(e.st.bombs[i])

\* getAlignedPosition(pos, direction)
getAlignedPosition(pos, direction) ==
  IF direction > 0 THEN (pos \div TILE_SIZE) * TILE_SIZE
  ELSE ((pos + TILE_SIZE - 1) \div TILE_SIZE) * TILE_SIZE

\* the Bomb object placeBomb creates
NewEngineBomb(id, player) ==
  [id |-> id, col |-> player.col, row |-> player.row, type |-> player.bombType,
   range |-> player.fireRange,
   timer |-> IF player.bombType = "remote" THEN Infinity ELSE Ms(BOMB_TIMER),
   ownerId |-> player.id, isDetonated |-> FALSE]

\* the bombs of state.bombs standing on a cell
BombsAt(e, col, row) ==
  SelectSeq(e.st.bombs, LAMBDA b : e.bombObjs[b].col = col /\ e.bombObjs[b].row = row)

\* placeBomb(player) returns a bomb (rather than null)
placeBombSucceeds(e, ix) ==
  /\ e.st.players[ix].activeBombs < e.st.players[ix].maxBombs
  /\ BombsAt(e, e.st.players[ix].col, e.st.players[ix].row) = <<>>

\* placeBomb without the test for a bomb already on the cell
placeBomb_NoCellCheck(e, ix) ==
  LET player == e.st.players[ix] IN
  IF player.activeBombs >= player.maxBombs THEN e
  ELSE [e EXCEPT !.bombObjs[e.nextBomb] = NewEngineBomb(e.nextBomb, player),
                 !.st.bombs = Append(@, e.nextBomb),
                 !.st.players[ix].activeBombs = @ + 1,
                 !.emitted.bombPlaced = Inc(@),
                 !.nextBomb = @ + 1]

\* placeBomb without the test of activeBombs against maxBombs
placeBomb_NoCap(e, ix) ==
  LET player == e.st.players[ix] IN
  IF BombsAt(e, player.col, player.row) # <<>> /\ player.activeBombs < player.maxBombs
    THEN e
  ELSE [e EXCEPT !.bombObjs[e.nextBomb] = NewEngineBomb(e.nextBomb, player),
                 !.st.bombs = Append(@, e.nextBomb),
                 !.st.players[ix].activeBombs = @ + 1,
                 !.emitted.bombPlaced = Inc(@),
                 !.nextBomb = @ + 1]

\* placeBomb(player), player being state.players[ix]
placeBomb(e, ix) ==
  LET player == e.st.players[ix] IN
  IF player.activeBombs >= player.maxBombs THEN e
  ELSE IF BombsAt(e, player.col, player.row) # <<>> THEN e
  ELSE [e EXCEPT !.bombObjs[e.nextBomb] = NewEngineBomb(e.nextBomb, player),
                 !.st.bombs = Append(@, e.nextBomb),
                 !.st.players[ix].activeBombs = @ + 1,
                 !.emitted.bombPlaced = Inc(@),
                 !.nextBomb = @ + 1]

\* createExplosion: one direction from step i on, as the sequence of the
\* tiles that get an explosion, each with its type and with whether the loop
\* reaches the chain-reaction test for it
RECURSIVE ExplosionArm(_, _, _, _, _, _, _, _)
ExplosionArm(grid, col, row, dx, dy, i, range, penetrating) ==
  LET c == col + dx * i
      r == row + dy * i
      type == TileType(grid, c, r)
  IN IF i > range THEN <<>>
     ELSE IF ~isValidPosition(grid, c, r) THEN <<>>
     ELSE IF type = "WALL" THEN <<>>
     ELSE IF type = "BLOCK" /\ ~penetrating
       THEN << [col |-> c, row |-> r, block |-> TRUE, chain |-> FALSE] >>
     ELSE << [col |-> c, row |-> r, block |-> (type = "BLOCK"), chain |-> TRUE] >>
            \o ExplosionArm(grid, col, row, dx, dy, i + 1, range, penetrating)

\* the tiles of the four directions (up, down, left, right)
ExplosionArms(grid, col, row, range, penetrating) ==
  ExplosionArm(grid, col, row, 0, -1, 1, range, penetrating)
    \o ExplosionArm(grid, col, row, 0, 1, 1, range, penetrating)
    \o ExplosionArm(grid, col, row, -1, 0, 1, range, penetrating)
    \o ExplosionArm(grid, col, row, 1, 0, 1, range, penetrating)

\* addExplosionTile(pos, ...)
NewExplosion(col, row) == [col |-> col, row |-> row, timer |-> Ms(EXPLOSION_DURATION)]

\* the chain-reaction test: the first bomb of state.bombs on the tile that
\* is not detonated, as a sequence of at most one bomb id
chainBomb(e, col, row) ==
  LET live == SelectSeq(BombsAt(e, col, row), LAMBDA b : ~e.bombObjs[b].isDetonated)
  IN IF live = <<>> THEN <<>> ELSE <<live[1]>>

RECURSIVE chainBombs(_, _, _)
chainBombs(e, arms, i) ==
  IF i > Len(arms) THEN <<>>
  ELSE (IF arms[i].chain THEN chainBomb(e, arms[i].col, arms[i].row) ELSE <<>>)
         \o chainBombs(e, arms, i + 1)

SeqToSet(q) == {q[i] : i \in 1 .. Len(q)}

\* createExplosion(center, range, penetrating); blasts records, for the
\* explosions of the current step, the tiles, the live bombs standing on
\* them and the bombs whose detonation was scheduled
createExplosion(e, col, row, range, penetrating) ==
  LET arms == ExplosionArms(e.st.grid, col, row, range, penetrating)
      tiles == <<NewExplosion(col, row)>>
                 \o [i \in 1 .. Len(arms) |-> NewExplosion(arms[i].col, arms[i].row)]
      destroyed == {<<arms[i].col, arms[i].row>> : i \in {j \in 1 .. Len(arms) : arms[j].block}}
      cells == {<<tiles[i].col, tiles[i].row>> : i \in 1 .. Len(tiles)}
      live == {b \in SeqToSet(e.st.bombs) :
                 /\ ~e.bombObjs[b].isDetonated
                 /\ <<e.bombObjs[b].col, e.bombObjs[b].row>> \in cells}
  IN [e EXCEPT !.st.explosions = @ \o tiles,
               !.st.grid.blocks = @ \ destroyed,
               !.timeouts = @ \o chainBombs(e, arms, 1),
               !.blasts = Append(@, [cells |-> cells, live |-> live,
                                     scheduled |-> SeqToSet(chainBombs(e, arms, 1))])]

\* explodeBomb: player.activeBombs = Math.max(0, player.activeBombs - 1) for
\* the player of state.players with the bomb's ownerId, if there is one
releaseBomb(e, ownerId) ==
  IF PlayerIx(e.st, ownerId) = 0 THEN e
  ELSE [e EXCEPT !.st.players[PlayerIx(e.st, ownerId)].activeBombs = Max(0, @ - 1)]

\* explodeBomb: the bomb leaves state.bombs and bombExploded is emitted
removeBomb(e, b) ==
  [e EXCEPT !.st.bombs = SelectSeq(@, LAMBDA c : c # b),
            !.emitted.bombExploded[b] = Inc(@)]

\* explodeBomb without the isDetonated guard
explodeBomb_NoGuard(e, b) ==
  removeBomb(
    releaseBomb(
      createExplosion([e EXCEPT !.bombObjs[b].isDetonated = TRUE],
                      e.bombObjs[b].col, e.bombObjs[b].row, e.bombObjs[b].range,
                      e.bombObjs[b].type = "penetrating"),
      e.bombObjs[b].ownerId),
    b)

\* GameEngine.explodeBomb(bomb), bomb being the Bomb object b
GameEngine_explodeBomb(e, b) ==
  IF e.bombObjs[b].isDetonated THEN e
  ELSE
    removeBomb(
      releaseBomb(
        createExplosion([e EXCEPT !.bombObjs[b].isDetonated = TRUE],
                        e.bombObjs[b].col, e.bombObjs[b].row, e.bombObjs[b].range,
                        e.bombObjs[b].type = "penetrating"),
        e.bombObjs[b].ownerId),
      b)

\* detonateRemoteBombs(playerId): explodeBomb for each of the filtered bombs
RECURSIVE explodeAll(_, _, _)
explodeAll(e, list, i) ==
  IF i > Len(list) THEN e ELSE explodeAll(GameEngine_explodeBomb(e, list[i]), list, i + 1)

detonateRemoteBombs(e, playerId) ==
  explodeAll(e, SelectSeq(e.st.bombs, LAMBDA b : /\ e.bombObjs[b].ownerId = playerId
                                                 /\ e.bombObjs[b].type = "remote"
                                                 /\ ~e.bombObjs[b].isDetonated), 1)

\* movePlayer(playerId, input, deltaTime), dist being speed * (deltaTime / 16.67)
movePlayer(e, playerId, input, dist) ==
  LET ix == PlayerIx(e.st, playerId) IN
  IF ix = 0 THEN e
  ELSE IF e.st.players[ix].isDead THEN e
  ELSE
    LET player == e.st.players[ix]
        dx == IF input.right THEN 1 ELSE IF input.left THEN -1 ELSE 0
        dy == IF input.down THEN 1 ELSE IF input.up THEN -1 ELSE 0
        newX == player.x + dx * dist
        alignedX == getAlignedPosition(player.x, dx)
        x1 == IF dx = 0 THEN player.x
              ELSE IF canMoveToPosition(e, newX, player.y, player) THEN newX
              ELSE IF canMoveToPosition(e, alignedX, player.y, player) THEN alignedX
              ELSE player.x
        newY == player.y + dy * dist
        alignedY == getAlignedPosition(player.y, dy)
        y1 == IF dy = 0 THEN player.y
              ELSE IF canMoveToPosition(e, x1, newY, player) THEN newY
              ELSE IF canMoveToPosition(e, x1, alignedY, player) THEN alignedY
              ELSE player.y
        moved == IF dx # 0 \/ dy # 0
                   THEN [player EXCEPT !.x = x1, !.y = y1,
                                       !.col = pixelToGrid(x1), !.row = pixelToGrid(y1)]
                   ELSE player
        e1 == [e EXCEPT !.st.players[ix] = moved]
        e2 == IF input.bomb THEN placeBomb(e1, ix) ELSE e1
    IN IF input.detonate /\ moved.bombType = "remote"
         THEN detonateRemoteBombs(e2, playerId) ELSE e2

\* collectPowerUp(player, powerUp) for the types that change the bombs
PowerUpTypes == {"bomb_count", "power_bomb", "remote_bomb"}

collectPowerUp(e, ix, type) ==
  IF type = "bomb_count"
    THEN [e EXCEPT !.st.players[ix].maxBombs = Min(@ + 1, 8)]
  ELSE IF type = "power_bomb"
    THEN [e EXCEPT !.st.players[ix].bombType = "penetrating"]
  ELSE [e EXCEPT !.st.players[ix].bombType = "remote"]

\* checkBoundsCollision(a, b) for squares (x, y, size)
checkBoundsCollision(ax, ay, asize, bx, by, bsize) ==
  /\ ax < bx + bsize /\ ax + asize > bx
  /\ ay < by + bsize /\ ay + asize > by

\* player.bounds against explosion.bounds (the tile shrunk by 4 on each side)
PlayerInExplosion(p, x) ==
  checkBoundsCollision(p.x, p.y, PlayerSize,
                       gridToPixel(x.col) + 4, gridToPixel(x.row) + 4, TILE_SIZE - 8)

\* enemy.bounds: the tile offset by 4, TILE_SIZE * 0.7 wide (in whole pixels)
EnemySize == (TILE_SIZE * 7) \div 10

PlayerOnEnemy(p, n) ==
  checkBoundsCollision(p.x, p.y, PlayerSize, n.x + 4, n.y + 4, EnemySize)

EnemyInExplosion(n, x) ==
  checkBoundsCollision(n.x + 4, n.y + 4, EnemySize,
                       gridToPixel(x.col) + 4, gridToPixel(x.row) + 4, TILE_SIZE - 8)

\* spawnEnemy(type, pos) for a slime, a ghost or a splitter; speed is kept in
\* tenths (1.2, 1.8, 1.5)
spawnEnemy(id, type, pos) ==
  [id |-> id, type |-> type,
   x |-> gridToPixel(pos[1]), y |-> gridToPixel(pos[2]),
   col |-> pos[1], row |-> pos[2], health |-> 1,
   speed |-> IF type = "ghost" THEN 18 ELSE IF type = "splitter" THEN 15 ELSE 12,
   points |-> IF type = "ghost" THEN 300 ELSE IF type = "splitter" THEN 250 ELSE 100,
   direction |-> <<0, 0>>, state |-> "idle",
   canPassWalls |-> type = "ghost"]

\* the corners of the enemy canEnemyMoveTo examines
EnemyCorners(x, y) ==
  LET margin == 4 IN
  {<<x + margin, y + margin>>, <<x + EnemySize - margin + 4, y + margin>>,
   <<x + margin, y + EnemySize - margin + 4>>,
   <<x + EnemySize - margin + 4, y + EnemySize - margin + 4>>}

\* the grid cells of a set of corners
CornerCells(corners) == {<<pixelToGrid(c[1]), pixelToGrid(c[2])>> : c \in corners}

\* canEnemyMoveTo letting ghosts through every tile
canEnemyMoveTo_AnyTile(e, x, y, enemy) ==
  LET cells == CornerCells(EnemyCorners(x, y))
  IN /\ \A c \in cells :
          /\ isValidPosition(e.st.grid, c[1], c[2])
          /\ enemy.canPassWalls
               \/ TileType(e.st.grid, c[1], c[2]) \notin {"WALL", "BLOCK"}
     /\ ~enemy.canPassWalls
          => \A i \in 1 .. Len(e.st.bombs) :
               <<e.bombObjs[e.st.bombs[i]].col, e.bombObjs[e.st.bombs[i]].row>> \notin cells

\* canEnemyMoveTo(x, y, enemy)
canEnemyMoveTo(e, x, y, enemy) ==
  LET cells == CornerCells(EnemyCorners(x, y))
  IN /\ \A c \in cells :
          /\ isValidPosition(e.st.grid, c[1], c[2])
          /\ IF enemy.canPassWalls THEN TileType(e.st.grid, c[1], c[2]) # "WALL"
             ELSE TileType(e.st.grid, c[1], c[2]) \notin {"WALL", "BLOCK"}
     /\ ~enemy.canPassWalls
          => \A i \in 1 .. Len(e.st.bombs) :
               <<e.bombObjs[e.st.bombs[i]].col, e.bombObjs[e.st.bombs[i]].row>> \notin cells

\* moveEnemy(enemy, dx, dy, deltaTime) for the k-th enemy of state.enemies,
\* speed * (deltaTime / 16.67) being dist
moveEnemy(e, k, dx, dy, dist) ==
  LET enemy == e.st.enemies[k]
      newX == enemy.x + dx * dist
      newY == enemy.y + dy * dist
      x1 == IF canEnemyMoveTo(e, newX, enemy.y, enemy) THEN newX ELSE enemy.x
      y1 == IF canEnemyMoveTo(e, x1, newY, enemy) THEN newY ELSE enemy.y
  IN [e EXCEPT !.st.enemies[k] = [enemy EXCEPT !.x = x1, !.y = y1,
                                                 !.col = pixelToGrid(x1),
                                                 !.row = pixelToGrid(y1)]]

\* EnemyAI.canEnemyWalkTo(pos, enemy), the AI's grid and bombs being those
\* of the engine
canEnemyWalkTo(e, pos, enemy) ==
  IF ~isValidPosition(e.st.grid, pos[1], pos[2]) THEN FALSE
  ELSE IF enemy.canPassWalls THEN TileType(e.st.grid, pos[1], pos[2]) # "WALL"
  ELSE IF TileType(e.st.grid, pos[1], pos[2]) \in {"WALL", "BLOCK"} THEN FALSE
  ELSE \A i \in 1 .. Len(e.st.bombs) :
         <<e.bombObjs[e.st.bombs[i]].col, e.bombObjs[e.st.bombs[i]].row>> # pos

\* damagePlayer without the invincibility window
damagePlayer_NoWindow(e, ix) ==
  IF e.st.players[ix].isInvincible THEN e
  ELSE
    LET e1 == [e EXCEPT !.st.players[ix].lives = @ - 1]
        e2 == IF e1.st.players[ix].lives <= 0
                THEN [e1 EXCEPT !.st.players[ix].isDead = TRUE] ELSE e1
        allDead == \A i \in 1 .. Len(e2.st.players) : e2.st.players[i].isDead
    IN IF e2.st.players[ix].isDead /\ allDead
         THEN [e2 EXCEPT !.st.state = "game_over", !.emitted.gameOver = Inc(@)]
         ELSE e2

\* damagePlayer(player)
damagePlayer(e, ix) ==
  IF e.st.players[ix].isInvincible THEN e
  ELSE
    LET e1 == [e EXCEPT !.st.players[ix].lives = @ - 1,
                        !.st.players[ix].isInvincible = TRUE,
                        !.st.players[ix].invincibilityTimer = Ms(PLAYER_INVINCIBILITY_TIME)]
        e2 == IF e1.st.players[ix].lives <= 0
                THEN [e1 EXCEPT !.st.players[ix].isDead = TRUE] ELSE e1
        allDead == \A i \in 1 .. Len(e2.st.players) : e2.st.players[i].isDead
    IN IF e2.st.players[ix].isDead /\ allDead
         THEN [e2 EXCEPT !.st.state = "game_over", !.emitted.gameOver = Inc(@)]
         ELSE e2

\* updateBombs(deltaTime): the loop over the array state.bombs held when the
\* call starts
RECURSIVE updateBombsFrom(_, _, _, _)
updateBombsFrom(e, list, i, dt) ==
  IF i > Len(list) THEN e
  ELSE IF e.bombObjs[list[i]].type = "remote" THEN updateBombsFrom(e, list, i + 1, dt)
  ELSE LET e1 == [e EXCEPT !.bombObjs[list[i]].timer = @ - dt]
       IN updateBombsFrom(IF e1.bombObjs[list[i]].timer <= 0
                            THEN GameEngine_explodeBomb(e1, list[i]) ELSE e1,
                          list, i + 1, dt)

updateBombs(e, dt) == updateBombsFrom(e, e.st.bombs, 1, dt)

\* updateExplosions(deltaTime)
updateExplosions(e, dt) ==
  [e EXCEPT !.st.explosions =
     SelectSeq([i \in 1 .. Len(@) |-> [@[i] EXCEPT !.timer = @ - dt]],
               LAMBDA x : x.timer > 0)]

\* updatePlayers(deltaTime)
updatePlayer(p, dt) ==
  IF ~p.isInvincible THEN p
  ELSE IF p.invincibilityTimer - dt <= 0
    THEN [p EXCEPT !.invincibilityTimer = @ - dt, !.isInvincible = FALSE]
  ELSE [p EXCEPT !.invincibilityTimer = @ - dt]

updatePlayers(e, dt) ==
  [e EXCEPT !.st.players = [i \in 1 .. Len(@) |-> updatePlayer(@[i], dt)]]

\* checkCollisions, "Player vs Explosion" and "Player vs Enemy"
PlayerIsHit(e, p) ==
  \/ \E i \in 1 .. Len(e.st.explosions) : PlayerInExplosion(p, e.st.explosions[i])
  \/ \E i \in 1 .. Len(e.st.enemies) : PlayerOnEnemy(p, e.st.enemies[i])

RECURSIVE collidePlayers(_, _)
collidePlayers(e, i) ==
  IF i > Len(e.st.players) THEN e
  ELSE LET p == e.st.players[i]
       IN collidePlayers(IF ~p.isDead /\ ~p.isInvincible /\ PlayerIsHit(e, p)
                           THEN damagePlayer(e, i) ELSE e,
                         i + 1)

\* killEnemy, the splitter's part for one offset: a mini slime on the cell
\* dx columns away if that cell is in the grid and EMPTY
splitTo(e, n, dx) ==
  IF /\ isValidPosition(e.st.grid, n.col + dx, n.row)
     /\ TileType(e.st.grid, n.col + dx, n.row) = "EMPTY"
    THEN [e EXCEPT !.st.enemies =
                     Append(@, [spawnEnemy(e.nextEnemy, "slime", <<n.col + dx, n.row>>)
                                  EXCEPT !.speed = (@ * 3) \div 2, !.points = 50]),
                   !.nextEnemy = @ + 1]
    ELSE e

\* killEnemy(enemy, killer), enemy being the Enemy object n
killEnemy(e, n) ==
  [(IF n.type = "splitter" /\ n.health <= 0
      THEN splitTo(splitTo([e EXCEPT !.st.score = @ + n.points], n, -1), n, 1)
      ELSE [e EXCEPT !.st.score = @ + n.points])
     EXCEPT !.st.enemies = SelectSeq(@, LAMBDA m : m.id # n.id)]

\* enemy.health-- for the enemy with the given id
hitEnemy(e, id) ==
  [e EXCEPT !.st.enemies =
     [k \in 1 .. Len(@) |-> IF @[k].id = id THEN [@[k] EXCEPT !.health = @ - 1] ELSE @[k]]]

\* checkCollisions, "Enemy vs Explosion", for an enemy n that an explosion
\* touches: enemy.health--, and killEnemy once it is 0
afterHit(e, n) ==
  IF n.health - 1 <= 0
    THEN killEnemy(hitEnemy(e, n.id), [n EXCEPT !.health = @ - 1])
    ELSE hitEnemy(e, n.id)

\* the enemies spawnEnemy has pushed between the engines e0 and e1
spawned(e0, e1) == SelectSeq(e1.st.enemies, LAMBDA m : m.id >= e0.nextEnemy)

\* checkCollisions, "Enemy vs Explosion": the loop over the array that
\* state.enemies is when it starts; killEnemy pushes the mini slimes onto
\* that array before it replaces state.enemies, so the loop reaches them too
RECURSIVE collideEnemies(_, _, _)
collideEnemies(e, list, i) ==
  IF i > Len(list) THEN e
  ELSE IF \E k \in 1 .. Len(e.st.explosions) : EnemyInExplosion(list[i], e.st.explosions[k])
    THEN collideEnemies(afterHit(e, list[i]),
                        list \o spawned(e, afterHit(e, list[i])), i + 1)
  ELSE collideEnemies(e, list, i + 1)

checkCollisions(e) ==
  LET e1 == collidePlayers(e, 1) IN collideEnemies(e1, e1.st.enemies, 1)

\* savePlayerStats(): the entries after the loop over state.players
savePlayerStats(e) ==
  [e EXCEPT !.saved =
     [k \in 0 .. 3 |->
        LET mine == SelectSeq(e.st.players, LAMBDA p : p.playerIndex = k)
        IN IF mine = <<>> THEN @[k] ELSE Stats(mine[Len(mine)])]]

\* checkLevelCompletion() run n times in a row (state.boss is null)
checkLevelCompletion(e, n) ==
  IF e.st.enemies = <<>>
    THEN [savePlayerStats(e) EXCEPT !.st.state = "victory",
                                    !.emitted.levelComplete = Min(@ + n, MaxCount)]
    ELSE e

\* update(deltaTime): one fixed step
update(e, dt) ==
  checkLevelCompletion(
    checkCollisions(updatePlayers(updateExplosions(updateBombs(e, dt), dt), dt)), 1)

\* number of fixed steps after which a timer t > 0 is at or below 0
StepsToExpire(t, dt) == (t + dt - 1) \div dt

\* The number of coming fixed steps, at most k, in which update does nothing
\* but count timers down (and repeat checkLevelCompletion): no bomb timer
\* runs out, no player that touches an explosion or an enemy can be damaged,
\* and no enemy touches an explosion.
QuietSteps(e, k, dt) ==
  LET bombs == {StepsToExpire(e.bombObjs[e.st.bombs[i]].timer, dt) - 1 :
                  i \in {j \in 1 .. Len(e.st.bombs) :
                           e.bombObjs[e.st.bombs[j]].type # "remote"}}
      players == {IF e.st.players[i].isInvincible
                    THEN StepsToExpire(e.st.players[i].invincibilityTimer, dt) - 1
                    ELSE 0 :
                  i \in {j \in 1 .. Len(e.st.players) :
                           /\ ~e.st.players[j].isDead
                           /\ PlayerIsHit(e, e.st.players[j])}}
      enemies == {0 : i \in {j \in 1 .. Len(e.st.enemies) :
                               \E x \in 1 .. Len(e.st.explosions) :
                                  EnemyInExplosion(e.st.enemies[j], e.st.explosions[x])}}
      all == {k} \cup bombs \cup players \cup enemies
  IN Max(0, CHOOSE m \in all : \A n \in all : m <= n)

\* n quiet steps of update in one go
QuietUpdate(e, n, dt) ==
  LET tick(p) ==
        IF ~p.isInvincible THEN p
        ELSE IF n >= StepsToExpire(p.invincibilityTimer, dt)
          THEN [p EXCEPT !.invincibilityTimer = @ - StepsToExpire(@, dt) * dt,
                         !.isInvincible = FALSE]
        ELSE [p EXCEPT !.invincibilityTimer = @ - n * dt]
      e1 == [e EXCEPT
               !.bombObjs = [b \in EngineBombIds |->
                               IF /\ \E i \in 1 .. Len(e.st.bombs) : e.st.bombs[i] = b
                                  /\ @[b].type # "remote"
                                 THEN [@[b] EXCEPT !.timer = @ - n * dt] ELSE @[b]],
               !.st.explosions =
                  SelectSeq([i \in 1 .. Len(@) |-> [@[i] EXCEPT !.timer = @ - n * dt]],
                            LAMBDA x : x.timer > 0),
               !.st.players = [i \in 1 .. Len(@) |-> tick(@[i])]]
  IN checkLevelCompletion(e1, n)

\* the accumulator loop of gameLoop: k fixed steps
RECURSIVE updateSteps(_, _, _)
updateSteps(e, k, dt) ==
  IF k = 0 THEN e
  ELSE LET n == QuietSteps(e, k, dt)
       IN IF n > 0 THEN updateSteps(QuietUpdate(e, n, dt), k - n, dt)
          ELSE updateSteps(update(e, dt), k - 1, dt)

\* getLevelById(id) for the levels 1 (Peaceful Meadow), 3 and 5 (King Slime's
\* Lair): the level's blocks, its enemy spawns (of level 1 the slime on cell
\* (7, 6), out of the reach of bombs laid next to the spawn cells; of level 3
\* the slime and the ghost, without the bat) and its boss descriptor
NoBossDescriptor == [type |-> "none"]
getLevelById(id, blocks) ==
  IF id = 5
    THEN [grid |-> blocks, enemies |-> <<>>,
          boss |-> [type |-> "king_slime", col |-> 7, row |-> 6]]
  ELSE IF id = 3
    THEN [grid |-> blocks,
          enemies |-> <<[type |-> "slime", position |-> <<7, 3>>],
                        [type |-> "ghost", position |-> <<5, 7>>]>>,
          boss |-> NoBossDescriptor]
    ELSE [grid |-> blocks,
          enemies |-> <<[type |-> "slime", position |-> <<7, 6>>]>>,
          boss |-> NoBossDescriptor]

\* GameEngine.loadLevel(levelData): the grid and the enemies are taken from
\* levelData, levelData.boss is not read
GameEngine_loadLevel(e, levelData) ==
  [e EXCEPT !.st.grid = [loaded |-> TRUE, blocks |-> levelData.grid],
            !.st.enemies = [i \in 1 .. Len(levelData.enemies) |->
                              spawnEnemy(e.nextEnemy + i - 1, levelData.enemies[i].type,
                                         levelData.enemies[i].position)],
            !.st.bombs = <<>>,
            !.st.explosions = <<>>,
            !.nextEnemy = @ + Len(levelData.enemies)]

\* GameComponent.loadLevel(id): engine.loadLevel, createPlayer and addPlayer
\* for each player, setState({currentLevel: id, state: PLAYING}), start()
Component_loadLevel(e, id, blocks) ==
  LET e1 == GameEngine_loadLevel(e, getLevelById(id, blocks))
      playerCount == IF e.isMultiplayer THEN 4 ELSE 1
      added == [i \in 1 .. playerCount |->
                  createPlayer(e.nextPlayer + i - 1, i - 1, spawnPositions[i], e.saved)]
  IN [e1 EXCEPT !.st.players = @ \o added,
                !.st.currentLevel = id,
                !.st.state = "playing",
                !.nextPlayer = @ + playerCount]

\* a level id that no level of ALL_LEVELS has
UnknownLevelId == 0
\* what a level of ALL_LEVELS may hold: a grid and an array of enemies, or
\* the same without the array of enemies, or without the grid
LevelShapes == {"level", "no_enemies", "no_grid"}

\* GameEngine.loadLevel(levelData) on level data of the given shape: the
\* engine when the call ends, and whether it ended by throwing.  Without the
\* grid the first statement to read it throws (levelData.grid.length);
\* without the enemies the grid is built and state.grid, enemies, bombs and
\* explosions are assigned before levelData.enemies.forEach throws.
GameEngine_loadLevelOf(e, levelData, shape) ==
  IF shape = "no_grid" THEN [eng |-> e, thrown |-> TRUE]
  ELSE IF shape = "no_enemies"
    THEN [eng |-> [e EXCEPT !.st.grid = [loaded |-> TRUE, blocks |-> levelData.grid],
                            !.st.enemies = <<>>,
                            !.st.bombs = <<>>,
                            !.st.explosions = <<>>],
          thrown |-> TRUE]
    ELSE [eng |-> GameEngine_loadLevel(e, levelData), thrown |-> FALSE]

\* GameComponent.loadLevel(id) when ALL_LEVELS holds a level of the given
\* shape under the ids of LoadedLevels: the engine afterwards and how the
\* call ended ("return" before anything is done, "TypeError" thrown out of
\* engine.loadLevel, "playing" after engine.start())
Component_loadLevelOf(e, id, blocks, shape) ==
  IF id \notin LoadedLevels THEN [eng |-> e, ended |-> "return"]
  ELSE IF GameEngine_loadLevelOf(e, getLevelById(id, blocks), shape).thrown
    THEN [eng |-> GameEngine_loadLevelOf(e, getLevelById(id, blocks), shape).eng,
          ended |-> "TypeError"]
    ELSE [eng |-> Component_loadLevel(e, id, blocks), ended |-> "playing"]

(***************************************************************************)
(* The tRPC rooms router (src/server/game.test.ts) over the game_rooms and *)
(* room_players tables (src/server/db.ts)                                  *)
(***************************************************************************)
\* number of users calling the router
NLobbyUsers == 2
\* number of rooms created in one behaviour
MaxLobbyRooms == 1
\* maxPlayers of a created room ranges over 2 .. MaxLobbyCapacity
MaxLobbyCapacity == 3
\* number of procedure calls in one behaviour
MaxLobbyCalls == 5

LobbyUsers == 1 .. NLobbyUsers
LobbyRoomIds == 1 .. MaxLobbyRooms
\* a password column or input: a string, NULL (column) or undefined (input)
LobbyPasswords == {"pw1", "pw2"}

NoRow == [id |-> 0]
NoCall == [proc |-> "none"]

\* db.createRoom(data): the columns the router does not give take their
\* defaults (playerCount 1, status waiting)
createRoom(db, data) ==
  [db EXCEPT !.gameRooms[data.id] =
     [id |-> data.id, hostId |-> data.hostId, playerCount |-> 1,
      maxPlayers |-> data.maxPlayers, status |-> "waiting",
      isPrivate |-> data.isPrivate, password |-> data.password]]

\* db.getRoom(roomId): the row, or null
getRoom(db, roomId) ==
  IF roomId \in LobbyRoomIds THEN db.gameRooms[roomId] ELSE NoRow

\* db.getRoomPlayers(roomId)
getRoomPlayers(db, roomId) == SelectSeq(db.roomPlayers, LAMBDA p : p.roomId = roomId)

\* db.addPlayerToRoom(data)
addPlayerToRoom(db, data) ==
  LET db1 == [db EXCEPT !.roomPlayers = Append(@, data)]
  IN IF getRoom(db1, data.roomId) = NoRow THEN db1
     ELSE [db1 EXCEPT !.gameRooms[data.roomId].playerCount = @ + 1]

\* db.removePlayerFromRoom(roomId, userId)
removePlayerFromRoom(db, roomId, userId) ==
  LET db1 == [db EXCEPT !.roomPlayers =
                SelectSeq(@, LAMBDA p : ~(p.roomId = roomId /\ p.userId = userId))]
  IN IF getRoom(db1, roomId) # NoRow /\ getRoom(db1, roomId).playerCount > 0
       THEN [db1 EXCEPT !.gameRooms[roomId].playerCount = @ - 1]
       ELSE db1

\* db.deleteRoom(roomId)
deleteRoom(db, roomId) ==
  [db EXCEPT !.roomPlayers = SelectSeq(@, LAMBDA p : p.roomId # roomId),
             !.gameRooms[roomId] = NoRow]

\* db.updatePlayerReady(roomId, userId, isReady)
updatePlayerReady(db, roomId, userId, isReady) ==
  [db EXCEPT !.roomPlayers =
     [i \in 1 .. Len(@) |->
        IF @[i].roomId = roomId /\ @[i].userId = userId
          THEN [@[i] EXCEPT !.isReady = isReady] ELSE @[i]]]

\* [0, 1, 2, 3].find(s => !usedSlots.includes(s)) || 0
lobbySlot(players) ==
  LET free == (0 .. 3) \ {players[i].playerSlot : i \in 1 .. Len(players)}
  IN IF free = {} THEN 0 ELSE CHOOSE f \in free : \A g \in free : f <= g

RoomPlayerRow(roomId, userId, slot, isHost, isReady) ==
  [roomId |-> roomId, userId |-> userId, playerSlot |-> slot,
   isReady |-> isReady, isHost |-> isHost]

\* the tables before any call, the call being answered and its answer
NewLobby ==
  [gameRooms |-> [r \in LobbyRoomIds |-> NoRow], roomPlayers |-> <<>>,
   nextRoom |-> 1, calls |-> 0, call |-> NoCall, reply |-> "none"]

LobbyRest == lobby = NewLobby

(***************************************************************************)
(* A* pathfinding (src/server/db.ts, findPath)                             *)
(***************************************************************************)
\* the walkability predicates are the subsets of a PathW x PathH grid
PathW == 2
PathH == 2
\* the iteration budgets passed as maxIterations
MaxIterations == 4
\* the path under reconstruction is recorded up to this length, which no
\* path without a repeated cell reaches
MaxPathLen == PathW * PathH + 1

PathCells == (0 .. PathW - 1) \X (0 .. PathH - 1)
NoCell == <<-1, -1>>
Undefined == -1

Abs(n) == IF n < 0 THEN -n ELSE n
manhattanDistance(a, b) == Abs(b[1] - a[1]) + Abs(b[2] - a[2])

\* map.get(key(pos)) || dflt: undefined and 0 both give dflt
GetOr(map, pos, dflt) == IF map[pos] = Undefined \/ map[pos] = 0 THEN dflt ELSE map[pos]

\* the locals of findPath(start, end, isWalkable, maxIterations) when the
\* while loop is reached
NewSearch(start, end, walkable, maxIterations) ==
  [start |-> start, end |-> end, walkable |-> walkable,
   maxIterations |-> maxIterations,
   openSet |-> <<start>>,
   cameFrom |-> [c \in PathCells |-> NoCell],
   gScore |-> [c \in PathCells |-> IF c = start THEN 0 ELSE Undefined],
   fScore |-> [c \in PathCells |->
                 IF c = start THEN manhattanDistance(start, end) ELSE Undefined],
   iterations |-> 0, pc |-> "while", current |-> NoCell, path |-> <<>>]
NoSearch == [pc |-> "none"]
PathRest == search = NoSearch

\* no function is applied on its own
NoFcall == [fn |-> "none"]
FcallRest == fcall = NoFcall

\* the index of the node of openSet with the lowest fScore: the first one
\* no later node is strictly below
RECURSIVE lowest(_, _, _)
lowest(s, i, best) ==
  IF i > Len(s.openSet) THEN best
  ELSE lowest(s, i + 1,
              IF GetOr(s.fScore, s.openSet[i], Infinity)
                   < GetOr(s.fScore, s.openSet[best], Infinity)
                THEN i ELSE best)

neighbors(current) ==
  << <<current[1], current[2] - 1>>, <<current[1], current[2] + 1>>,
     <<current[1] - 1, current[2]>>, <<current[1] + 1, current[2]>> >>

\* the body of the loop over the neighbors, for one neighbor
visit(s, current, neighbor) ==
  IF neighbor \notin s.walkable THEN s
  ELSE IF GetOr(s.gScore, current, 0) + 1 < GetOr(s.gScore, neighbor, Infinity)
    THEN [s EXCEPT !.cameFrom[neighbor] = current,
                   !.gScore[neighbor] = GetOr(s.gScore, current, 0) + 1,
                   !.fScore[neighbor] = GetOr(s.gScore, current, 0) + 1
                                          + manhattanDistance(neighbor, s.end),
                   !.openSet = IF \E i \in 1 .. Len(@) : @[i] = neighbor
                                 THEN @ ELSE Append(@, neighbor)]
  ELSE s

\* openSet.splice(currentIndex, 1)
splice(q, i) == [j \in 1 .. Len(q) - 1 |-> IF j < i THEN q[j] ELSE q[j + 1]]

\* one pass of the while loop with the node of index i as current
iteration(s, i) ==
  IF s.openSet[i] = s.end
    THEN [s EXCEPT !.iterations = @ + 1, !.pc = "reconstruct",
                   !.current = s.openSet[i], !.path = <<s.openSet[i]>>]
    ELSE visit(visit(visit(visit(
           [s EXCEPT !.iterations = @ + 1, !.current = s.openSet[i],
                     !.openSet = splice(@, i)],
           s.openSet[i], neighbors(s.openSet[i])[1]),
           s.openSet[i], neighbors(s.openSet[i])[2]),
           s.openSet[i], neighbors(s.openSet[i])[3]),
           s.openSet[i], neighbors(s.openSet[i])[4])

(***************************************************************************)
(* The enemy AI (src/client/src/game/systems/EnemyAI.ts), whose grid and   *)
(* bombs are those of the engine                                           *)
(***************************************************************************)
\* the directions in the order evadeDanger and slimeBehavior try them
AIDirections == << <<0, -1>>, <<0, 1>>, <<-1, 0>>, <<1, 0>> >>

\* isPositionDangerous(pos)
isPositionDangerous(e, pos) ==
  \E i \in 1 .. Len(e.st.bombs) :
    /\ manhattanDistance(pos, <<e.bombObjs[e.st.bombs[i]].col,
                                e.bombObjs[e.st.bombs[i]].row>>)
         <= e.bombObjs[e.st.bombs[i]].range
    /\ \/ pos[1] = e.bombObjs[e.st.bombs[i]].col
       \/ pos[2] = e.bombObjs[e.st.bombs[i]].row

\* isInDanger(enemy)
isInDanger(e, enemy) == isPositionDangerous(e, <<enemy.col, enemy.row>>)

\* the cell n steps from the enemy's cell in a direction
Ahead(enemy, dir, n) == <<enemy.col + dir[1] * n, enemy.row + dir[2] * n>>

\* evadeDanger: the directions whose cell two steps away can be walked to
\* and is not dangerous
SafeDirections(e, enemy) ==
  SelectSeq(AIDirections,
            LAMBDA dir : /\ canEnemyWalkTo(e, Ahead(enemy, dir, 2), enemy)
                         /\ ~isPositionDangerous(e, Ahead(enemy, dir, 2)))

\* evadeDanger(enemy, deltaTime) for the k-th enemy
evadeDanger(e, k, dist) ==
  IF SafeDirections(e, e.st.enemies[k]) = <<>> THEN e
  ELSE moveEnemy([e EXCEPT !.st.enemies[k].direction =
                              Head(SafeDirections(e, e.st.enemies[k])),
                           !.st.enemies[k].state = "moving"],
                 k, Head(SafeDirections(e, e.st.enemies[k]))[1],
                 Head(SafeDirections(e, e.st.enemies[k]))[2], dist)

\* slimeBehavior: the directions whose next cell can be walked to
validDirs(e, enemy) ==
  SelectSeq(AIDirections, LAMBDA dir : canEnemyWalkTo(e, Ahead(enemy, dir, 1), enemy))

\* moveEnemyWithCollision(enemy, deltaTime) for the k-th enemy
moveEnemyWithCollision(e, k, dist) ==
  moveEnemy(e, k, e.st.enemies[k].direction[1], e.st.enemies[k].direction[2], dist)

\* slimeBehavior(enemy, deltaTime) for the k-th enemy: expired tells whether
\* stateTimer has run out, dir is what randomElement(validDirs) returns
slimeBehavior(e, k, expired, dir, dist) ==
  moveEnemyWithCollision(
    IF e.st.enemies[k].state = "idle" \/ expired
      THEN IF validDirs(e, e.st.enemies[k]) # <<>>
             THEN [e EXCEPT !.st.enemies[k].direction = dir,
                            !.st.enemies[k].state = "moving"]
             ELSE [e EXCEPT !.st.enemies[k].state = "idle"]
      ELSE e,
    k, dist)

\* updateEnemy(enemy, deltaTime) for the k-th enemy, a slime
updateEnemy(e, k, expired, dir, dist) ==
  IF isInDanger(e, e.st.enemies[k]) THEN evadeDanger(e, k, dist)
  ELSE slimeBehavior(e, k, expired, dir, dist)

\* what randomElement(validDirs) may return for an enemy
RandomDirs(e, enemy) ==
  IF validDirs(e, enemy) = <<>> THEN {<<0, 0>>}
  ELSE {validDirs(e, enemy)[i] : i \in 1 .. Len(validDirs(e, enemy))}

NoInputs == [moves |-> 0, pickups |-> 0, enemyMoves |-> 0, pauses |-> 0]

ClientRest ==
  /\ eng = NewEngine
  /\ inputs = NoInputs

ServerRest ==
  /\ rooms = [r \in RoomIds |-> NoRoom]
  /\ playerRooms = [s \in Sockets |-> 0]
  /\ sockets = [s \in Sockets |-> "new"]
  /\ timers = <<>>
  /\ nextId = [room |-> 1, bomb |-> 1]
  /\ sent = NoSent
  /\ handled = 0

BossRest ==
  /\ boss = NoBoss
  /\ engScore = 0
  /\ events = NoEvents

(***************************************************************************)
(* Actions of the boss fight                                               *)
(***************************************************************************)
\* bossSystem.update(boss, players, grid, deltaTime), called once per frame
BossUpdate ==
  /\ mode = "boss"
  /\ LET b1 == BossSystem_update(boss, Ms(BossFrameMs)) IN
       /\ boss' = b1
       /\ events' = Emit(events, "onDefeated",
                         IF boss.state = "dying" /\ b1.state = "defeated" THEN 1 ELSE 0)
       /\ lastOp' = "update"
  /\ UNCHANGED <<mode, engScore, notBossVars>>

\* bossSystem.damageBoss(damage)
BossDamage ==
  /\ mode = "boss"
  /\ \E d \in 1 .. MaxDamage :
       /\ boss' = BossSystem_damageBoss(boss, d)
       /\ lastOp' = "damageBoss"
  /\ UNCHANGED <<mode, engScore, events, notBossVars>>

\* The boss part of k fixed steps of GameEngine.update (updateBoss, then the
\* boss-vs-explosion check of checkCollisions), an explosion tile overlapping
\* the boss's bounds during the first `hits` of them.
updateStepsBoss(b, k, hits) ==
  LET after[i \in 0 .. k] ==
        IF i = 0 THEN b
        ELSE checkCollisionsBoss(GameEngine_updateBoss(after[i - 1], fixedDeltaTime),
                                 i <= hits)
  IN after[k]

\* One frame of GameEngine.gameLoop as far as the boss is concerned: the
\* accumulator loop runs StepsPerFrame fixed steps in one go.
EngineBossFrame ==
  /\ mode = "boss"
  /\ \E hits \in 0 .. MaxHits :
       LET b1 == updateStepsBoss(boss, StepsPerFrame, hits)
           defeatedNow == boss.active /\ ~b1.active
       IN /\ boss' = b1
          /\ engScore' = IF defeatedNow THEN engScore + b1.points ELSE engScore
          /\ events' = Emit(events, "bossDefeated", IF defeatedNow THEN 1 ELSE 0)
          /\ lastOp' = "engineFrame"
  /\ UNCHANGED <<mode, notBossVars>>

InitBoss ==
  /\ mode = "boss"
  /\ \E t \in BossTypes : boss = createBoss(t, NDialogue)
  /\ engScore = 0
  /\ events = NoEvents
  /\ lastOp = "init"
  /\ ServerRest
  /\ ClientRest
  /\ LobbyRest
  /\ PathRest
  /\ FcallRest

NextBoss == BossUpdate \/ BossDamage \/ EngineBossFrame

SpecBoss == InitBoss /\ [][NextBoss]_vars

(***************************************************************************)
(* The multiplayer server's socket handlers                                *)
(***************************************************************************)
\* the registry lookups every handler starts with:
\* playerRooms.get(socket.id), rooms.get(roomId), room.players.get(socket.id)
RoomOf(s) == IF playerRooms[s] = 0 THEN NoRoom ELSE rooms[playerRooms[s]]
InRoom(s) == RoomOf(s) # NoRoom
IsPlayer(s) == InRoom(s) /\ MapHas(RoomOf(s).players, s)

ServerBombTypes == {"normal", "pierce", "remote"}
GameModes == {"coop", "versus"}

\* "server": one room and every handler; "rooms": the handlers that keep the
\* room registry, over MaxRooms rooms
ServerModes == {"server", "rooms"}
RoomBudget == IF mode = "rooms" THEN MaxRooms ELSE MaxGameRooms

\* a socket message arrives and is dispatched to its handler
Receive(s) ==
  /\ mode \in ServerModes /\ sockets[s] = "open"
  /\ handled < MaxRequests
  /\ handled' = handled + 1

\* io.on('connection')
Connect(s) ==
  /\ mode \in ServerModes /\ sockets[s] = "new"
  /\ sockets' = [sockets EXCEPT ![s] = "open"]
  /\ lastOp' = "request"
  /\ UNCHANGED <<mode, notServerVars, rooms, playerRooms, timers, nextId, sent, handled>>

\* socket.on('create_room'); maxPlayers 0 stands for a request without one
create_room(s) ==
  /\ Receive(s)
  /\ nextId.room <= RoomBudget
  /\ \E maxPlayers \in 1 .. MaxCapacity, gameMode \in GameModes :
       LET roomId == nextId.room
           room == [id |-> roomId, hostId |-> s,
                    players |-> <<NewPlayer(s, 0, TRUE)>>, bombs |-> <<>>,
                    gameState |-> "waiting", gameMode |-> gameMode,
                    maxPlayers |-> IF maxPlayers = 0 THEN 4 ELSE maxPlayers,
                    grid |-> NoGrid]
       IN /\ rooms' = [rooms EXCEPT ![roomId] = room]
          /\ playerRooms' = [playerRooms EXCEPT ![s] = roomId]
          /\ nextId' = [nextId EXCEPT !.room = @ + 1]
  /\ lastOp' = "request"
  /\ UNCHANGED <<mode, notServerVars, sockets, timers, sent>>

\* [0, 1, 2, 3].find(s => !usedSlots.includes(s)) || 0
availableSlot(players) ==
  LET used == {players[i].slot : i \in 1 .. Len(players)}
      free == (0 .. 3) \ used
  IN IF free = {} THEN 0 ELSE CHOOSE f \in free : \A g \in free : f <= g

\* socket.on('join_room')
join_room(s) ==
  /\ Receive(s)
  /\ \E roomId \in RoomIds :
       LET room == rooms[roomId] IN
       IF room = NoRoom THEN
         /\ lastOp' = "error:Room not found"
         /\ UNCHANGED <<rooms, playerRooms>>
       ELSE IF room.gameState # "waiting" THEN
         /\ lastOp' = "error:Game already in progress"
         /\ UNCHANGED <<rooms, playerRooms>>
       ELSE IF Len(room.players) >= room.maxPlayers THEN
         /\ lastOp' = "error:Room is full"
         /\ UNCHANGED <<rooms, playerRooms>>
       ELSE
         /\ rooms' = [rooms EXCEPT ![roomId].players =
                        MapSet(@, NewPlayer(s, availableSlot(room.players), FALSE))]
         /\ playerRooms' = [playerRooms EXCEPT ![s] = roomId]
         /\ lastOp' = "request"
  /\ UNCHANGED <<mode, notServerVars, sockets, timers, nextId, sent>>

\* socket.on('set_ready')
set_ready(s) ==
  /\ Receive(s)
  /\ \E isReady \in BOOLEAN :
       IF ~IsPlayer(s) THEN UNCHANGED rooms
       ELSE rooms' = [rooms EXCEPT ![playerRooms[s]].players =
                        MapSet(@, [MapGet(@, s) EXCEPT !.isReady = isReady])]
  /\ lastOp' = "request"
  /\ UNCHANGED <<mode, notServerVars, sockets, playerRooms, timers, nextId, sent>>

\* what a start_game request of socket s is answered with, as recorded in
\* lastOp: nothing, an error message to the sender, or the game_started
\* broadcast
StartReply(s, reply) == "start_game:" \o ToString(s) \o ":" \o reply

\* the allReady test of start_game
allReady(room) ==
  \A i \in 1 .. Len(room.players) :
    room.players[i].isReady \/ room.players[i].id = room.hostId

\* start_game without the host test
start_game_AnyMember(s) ==
  /\ Receive(s)
  /\ LET room == RoomOf(s)
     IN IF ~InRoom(s) THEN
          /\ lastOp' = StartReply(s, "none")
          /\ UNCHANGED rooms
        ELSE IF ~allReady(room) THEN
          /\ lastOp' = StartReply(s, "error:Not all players are ready")
          /\ UNCHANGED rooms
        ELSE
          /\ \E blocks \in SUBSET BlockCandidates :
               rooms' = [rooms EXCEPT ![room.id].gameState = "playing",
                                      ![room.id].grid = generateGrid(blocks)]
          /\ lastOp' = StartReply(s, "game_started")
  /\ UNCHANGED <<mode, notServerVars, sockets, playerRooms, timers, nextId, sent>>

\* socket.on('start_game')
start_game(s) ==
  /\ Receive(s)
  /\ LET room == RoomOf(s)
     IN IF ~InRoom(s) THEN
          /\ lastOp' = StartReply(s, "none")
          /\ UNCHANGED rooms
        ELSE IF room.hostId # s THEN
          /\ lastOp' = StartReply(s, "error:Only host can start the game")
          /\ UNCHANGED rooms
        ELSE IF ~allReady(room) THEN
          /\ lastOp' = StartReply(s, "error:Not all players are ready")
          /\ UNCHANGED rooms
        ELSE
          /\ \E blocks \in SUBSET BlockCandidates :
               rooms' = [rooms EXCEPT ![room.id].gameState = "playing",
                                      ![room.id].grid = generateGrid(blocks)]
          /\ lastOp' = StartReply(s, "game_started")
  /\ UNCHANGED <<mode, notServerVars, sockets, playerRooms, timers, nextId, sent>>

\* socket.on('move')
move(s) ==
  /\ Receive(s)
  /\ \E c \in PlayCells :
       IF IsPlayer(s) /\ RoomOf(s).gameState = "playing"
            /\ MapGet(RoomOf(s).players, s).isAlive
         THEN rooms' = [rooms EXCEPT ![playerRooms[s]].players =
                          MapSet(@, [MapGet(@, s) EXCEPT !.x = c[1], !.y = c[2]])]
         ELSE UNCHANGED rooms
  /\ lastOp' = "request"
  /\ UNCHANGED <<mode, notServerVars, sockets, playerRooms, timers, nextId, sent>>

\* socket.on('place_bomb'): the bomb the handler creates
NewBomb(bombId, s, x, y, range, type) ==
  [id |-> bombId, playerId |-> s, x |-> x, y |-> y, range |-> range,
   timer |-> 3000, type |-> type]

\* what the sender of a place_bomb request is sent: nothing, or the
\* bomb_placed broadcast to the room
PlaceReply(s, reply) == "place_bomb:" \o ToString(s) \o ":" \o reply

\* socket.on('place_bomb')
place_bomb(s) ==
  /\ Receive(s)
  /\ \E c \in PlayCells, type \in ServerBombTypes :
       LET room == RoomOf(s)
           player == MapGet(room.players, s)
           playerBombs == SelectSeq(room.bombs, LAMBDA b : b.playerId = s)
       IN IF \/ ~IsPlayer(s) \/ room.gameState # "playing"
             \/ ~player.isAlive
             \/ Len(playerBombs) >= player.maxBombs
            THEN /\ lastOp' = PlaceReply(s, "none")
                 /\ UNCHANGED <<rooms, timers, nextId>>
            ELSE /\ nextId.bomb <= MaxBombIds
                 /\ LET bomb == NewBomb(nextId.bomb, s, c[1], c[2], player.fireRange, type)
                    IN /\ rooms' = [rooms EXCEPT ![room.id].bombs = MapSet(@, bomb)]
                       /\ timers' = Append(timers, Timer(room.id, bomb.id, bomb.timer))
                 /\ nextId' = [nextId EXCEPT !.bomb = @ + 1]
                 /\ lastOp' = PlaceReply(s, "bomb_placed")
  /\ UNCHANGED <<mode, notServerVars, sockets, playerRooms, sent>>

\* the effect of a call of explodeBomb on the server's variables
DoExplode(rid, bid, pending) ==
  LET r == explodeBomb(rooms, rid, bid) IN
    /\ rooms' = r.rooms
    /\ timers' = pending \o r.scheduled
    /\ sent' = IF r.outcome = "exploded"
                 THEN [sent EXCEPT !.bomb_exploded[bid] = Inc(@)]
                 ELSE sent

\* socket.on('detonate_bomb')
detonate_bomb(s) ==
  /\ Receive(s)
  /\ \E bombId \in BombIds :
       LET room == RoomOf(s) IN
       IF /\ InRoom(s) /\ MapHas(room.bombs, bombId)
          /\ MapGet(room.bombs, bombId).playerId = s
          /\ MapGet(room.bombs, bombId).type = "remote"
         THEN /\ DoExplode(room.id, bombId, timers)
              /\ lastOp' = "request"
         ELSE /\ lastOp' = "request"
              /\ UNCHANGED <<rooms, timers, sent>>
  /\ UNCHANGED <<mode, notServerVars, sockets, playerRooms, nextId>>

\* socket.on('collect_powerup'), for the types that change bomb statistics
collect_powerup(s) ==
  /\ Receive(s)
  /\ \E type \in {"bomb_up", "fire_up"} :
       IF ~IsPlayer(s) THEN UNCHANGED rooms
       ELSE LET player == MapGet(RoomOf(s).players, s) IN
            /\ type = "bomb_up" => player.maxBombs < MaxMaxBombs
            /\ type = "fire_up" => player.fireRange < MaxFireRange
            /\ rooms' = [rooms EXCEPT ![playerRooms[s]].players =
                           MapSet(@, IF type = "bomb_up"
                                       THEN [player EXCEPT !.maxBombs = @ + 1]
                                       ELSE [player EXCEPT !.fireRange = @ + 1])]
  /\ lastOp' = "request"
  /\ UNCHANGED <<mode, notServerVars, sockets, playerRooms, timers, nextId, sent>>

\* socket.on('player_death')
player_death(s) ==
  /\ Receive(s)
  /\ IF ~IsPlayer(s) THEN UNCHANGED <<rooms, sent>>
     ELSE LET room == RoomOf(s)
              players1 == MapSet(room.players,
                                 [MapGet(room.players, s) EXCEPT !.isAlive = FALSE])
              alivePlayers == SelectSeq(players1, LAMBDA p : p.isAlive)
              over == \/ room.gameMode = "coop" /\ Len(alivePlayers) = 0
                      \/ room.gameMode = "versus" /\ Len(alivePlayers) <= 1
          IN /\ rooms' = [rooms EXCEPT ![room.id].players = players1,
                                       ![room.id].gameState =
                                          IF over THEN "finished" ELSE @]
             /\ sent' = IF over THEN [sent EXCEPT !.game_over[room.id] = Inc(@)]
                        ELSE sent
  /\ lastOp' = "request"
  /\ UNCHANGED <<mode, notServerVars, sockets, playerRooms, timers, nextId>>

\* socket.on('level_complete')
level_complete(s) ==
  /\ Receive(s)
  /\ IF ~InRoom(s) THEN UNCHANGED rooms
     ELSE rooms' = [rooms EXCEPT ![playerRooms[s]].gameState = "finished"]
  /\ lastOp' = "request"
  /\ UNCHANGED <<mode, notServerVars, sockets, playerRooms, timers, nextId, sent>>

\* handlePlayerLeave(io, socket): the registry and the socket index after it
handlePlayerLeave(rs, pr, s) ==
  IF pr[s] = 0 \/ rs[pr[s]] = NoRoom THEN [rooms |-> rs, playerRooms |-> pr]
  ELSE
    LET roomId == pr[s]
        room == rs[roomId]
        left == MapDelete(room.players, s)
    IN [playerRooms |-> [pr EXCEPT ![s] = 0],
        rooms |-> IF Len(left) = 0 THEN [rs EXCEPT ![roomId] = NoRoom]
                  ELSE IF room.hostId = s
                    THEN [rs EXCEPT ![roomId].players = left,
                                    ![roomId].hostId = left[1].id]
                  ELSE [rs EXCEPT ![roomId].players = left]]

\* socket.on('leave_room')
leave_room(s) ==
  /\ Receive(s)
  /\ rooms' = handlePlayerLeave(rooms, playerRooms, s).rooms
  /\ playerRooms' = handlePlayerLeave(rooms, playerRooms, s).playerRooms
  /\ lastOp' = "request"
  /\ UNCHANGED <<mode, notServerVars, sockets, timers, nextId, sent>>

\* socket.on('disconnect')
disconnect(s) ==
  /\ Receive(s)
  /\ rooms' = handlePlayerLeave(rooms, playerRooms, s).rooms
  /\ playerRooms' = handlePlayerLeave(rooms, playerRooms, s).playerRooms
  /\ sockets' = [sockets EXCEPT ![s] = "closed"]
  /\ lastOp' = "request"
  /\ UNCHANGED <<mode, notServerVars, timers, nextId, sent>>

RemoveAt(q, i) == [j \in 1 .. Len(q) - 1 |-> IF j < i THEN q[j] ELSE q[j + 1]]

\* A pending timer may fire once no timer scheduled before it with an equal
\* or shorter delay is still pending (such a timer expires first).
MayFire(i) == \A j \in 1 .. i - 1 : timers[j].delay > timers[i].delay

\* a setTimeout callback runs: explodeBomb(io, roomId, bombId)
TimerFire(i) ==
  /\ mode = "server"
  /\ i \in 1 .. Len(timers) /\ MayFire(i)
  /\ DoExplode(timers[i].room, timers[i].bomb, RemoveAt(timers, i))
  /\ lastOp' = "timer:" \o explodeBomb(rooms, timers[i].room, timers[i].bomb).outcome
  /\ UNCHANGED <<mode, notServerVars, sockets, playerRooms, nextId, handled>>

InitServer ==
  /\ mode = "server"
  /\ lastOp = "init"
  /\ ServerRest
  /\ ClientRest
  /\ BossRest
  /\ LobbyRest
  /\ PathRest
  /\ FcallRest

NextServer ==
  \/ \E s \in Sockets :
       \/ Connect(s) \/ create_room(s) \/ join_room(s) \/ set_ready(s)
       \/ start_game(s) \/ move(s) \/ place_bomb(s) \/ detonate_bomb(s)
       \/ collect_powerup(s) \/ player_death(s) \/ level_complete(s)
       \/ leave_room(s) \/ disconnect(s)
  \/ \E i \in 1 .. MaxBombIds * 2 : TimerFire(i)

SpecServer == InitServer /\ [][NextServer]_vars

\* the room registry on its own: rooms are created, joined and left
InitRooms ==
  /\ mode = "rooms"
  /\ lastOp = "init"
  /\ ServerRest
  /\ ClientRest
  /\ BossRest
  /\ LobbyRest
  /\ PathRest
  /\ FcallRest

NextRooms ==
  \E s \in Sockets :
    \/ Connect(s) \/ create_room(s) \/ join_room(s) \/ set_ready(s)
    \/ start_game(s) \/ leave_room(s) \/ disconnect(s)

SpecRooms == InitRooms /\ [][NextRooms]_vars

(***************************************************************************)
(* The client engine's callers: input, UI, animation frames and timeouts   *)
(***************************************************************************)

\* The Bomb objects still referred to are those of state.bombs and those
\* captured by a pending chain-reaction callback; the others are garbage,
\* and the timer of a bomb outside state.bombs is never read again.
Reachable(e) ==
  [e EXCEPT !.bombObjs =
     [b \in EngineBombIds |->
        IF b \in SeqToSet(e.st.bombs) THEN @[b]
        ELSE IF b \in SeqToSet(e.timeouts) /\ @[b] # NoBomb THEN [@[b] EXCEPT !.timer = 0]
        ELSE NoBomb]]

\* the explosions recorded in blasts are those of the current step
Begin(e) == [e EXCEPT !.blasts = <<>>]

NoInput == [up |-> FALSE, down |-> FALSE, left |-> FALSE, right |-> FALSE,
            bomb |-> FALSE, detonate |-> FALSE]

\* GameComponent.loadLevel(id)
LoadLevel ==
  /\ mode = "client"
  /\ UNCHANGED inputs
  /\ eng.loads < MaxLoads
  /\ \E id \in LoadedLevels, blocks \in SUBSET LevelBlockCandidates :
       eng' = Reachable([Component_loadLevel(Begin(eng), id, blocks)
                          EXCEPT !.loads = @ + 1])
  /\ lastOp' = "loadLevel"
  /\ UNCHANGED <<mode, notClientVars>>

\* GameComponent.loadLevel(id) with an id or with level data that may be
\* absent
LoadLevelOf ==
  /\ mode = "client"
  /\ UNCHANGED inputs
  /\ eng.loads < MaxLoads
  /\ \E id \in LoadedLevels \cup {UnknownLevelId}, blocks \in SUBSET LevelBlockCandidates,
        shape \in LevelShapes :
       /\ eng' = Reachable([Component_loadLevelOf(Begin(eng), id, blocks, shape).eng
                             EXCEPT !.loads = @ + 1])
       /\ lastOp' = "loadLevel:" \o Component_loadLevelOf(Begin(eng), id, blocks, shape).ended
  /\ UNCHANGED <<mode, notClientVars>>

\* "client": the whole engine, the players walking left and right by whole
\* tiles; "move": players and enemies walking in the four directions by
\* small and large steps between bombs, without frames
ClientModes == {"client", "move"}
MoveBudget == IF mode = "move" THEN MaxWalks ELSE MaxMoves
MoveInputs ==
  {[NoInput EXCEPT !.left = TRUE], [NoInput EXCEPT !.right = TRUE]}
    \cup IF mode = "move"
           THEN {[NoInput EXCEPT !.up = TRUE], [NoInput EXCEPT !.down = TRUE]}
           ELSE {}
MoveDists == IF mode = "move" THEN WalkSteps ELSE MoveSteps

\* movePlayer(playerId, input, deltaTime) with a direction key held
MovePlayer(i) ==
  /\ mode \in ClientModes
  /\ inputs.moves < MoveBudget
  /\ inputs' = [inputs EXCEPT !.moves = @ + 1]
  /\ i <= Len(eng.st.players)
  /\ \E input \in MoveInputs, dist \in MoveDists :
       eng' = Reachable(movePlayer(Begin(eng), eng.st.players[i].id, input, dist))
  /\ lastOp' = "movePlayer"
  /\ UNCHANGED <<mode, notClientVars>>

\* movePlayer with the bomb key held, or the touch button: placeBomb(player)
PlaceBomb(i) ==
  /\ mode \in ClientModes
  /\ UNCHANGED inputs
  /\ i <= Len(eng.st.players)
  /\ ~eng.st.players[i].isDead
  /\ placeBombSucceeds(eng, i) => eng.nextBomb <= MaxEngineBombs
  /\ eng' = Reachable(movePlayer(Begin(eng), eng.st.players[i].id,
                              [NoInput EXCEPT !.bomb = TRUE], 0))
  /\ lastOp' = IF placeBombSucceeds(eng, i) THEN "placeBomb"
               ELSE IF eng.st.players[i].activeBombs >= eng.st.players[i].maxBombs
                 THEN "placeBomb:maxBombs"
               ELSE "placeBomb:occupied"
  /\ UNCHANGED <<mode, notClientVars>>

\* movePlayer with the detonate key held: detonateRemoteBombs(player.id)
Detonate(i) ==
  /\ mode = "client"
  /\ UNCHANGED inputs
  /\ i <= Len(eng.st.players)
  /\ eng' = Reachable(movePlayer(Begin(eng), eng.st.players[i].id,
                              [NoInput EXCEPT !.detonate = TRUE], 0))
  /\ lastOp' = "detonate"
  /\ UNCHANGED <<mode, notClientVars>>

\* checkCollisions finds the player on a power-up: collectPowerUp(player, powerUp)
CollectPowerUp(i) ==
  /\ mode = "client"
  /\ inputs.pickups < MaxPickups
  /\ inputs' = [inputs EXCEPT !.pickups = @ + 1]
  /\ i <= Len(eng.st.players)
  /\ ~eng.st.players[i].isDead /\ ~eng.st.players[i].isInvincible
  /\ \E type \in PowerUpTypes :
       /\ type = "bomb_count" => eng.st.players[i].maxBombs < MaxEngineMaxBombs
       /\ eng' = Reachable(collectPowerUp(Begin(eng), i, type))
  /\ lastOp' = "collectPowerUp"
  /\ UNCHANGED <<mode, notClientVars>>

\* one animation frame: gameLoop(currentTime) with FrameSteps fixed steps due
GameLoop ==
  /\ mode = "client"
  /\ ~eng.st.isPaused /\ eng.st.state = "playing"
  /\ eng' = Reachable(updateSteps(Begin(eng), FrameSteps, fixedDeltaTime))
  /\ lastOp' = "gameLoop"
  /\ UNCHANGED <<mode, notClientVars, inputs>>

\* GameEngine.pause()
pause(e) == [e EXCEPT !.st.isPaused = TRUE, !.st.state = "paused"]

\* GameEngine.resume(): gameLoop(this.lastTime) finds deltaTime = 0 and runs
\* no fixed step
resume(e) == [e EXCEPT !.st.isPaused = FALSE, !.st.state = "playing"]

\* GameComponent.togglePause(), by the pause key or a pause button: the
\* component's isPaused is that of the engine, the two being written
\* together
TogglePause ==
  /\ mode = "client"
  /\ inputs.pauses < MaxPauses
  /\ inputs' = [inputs EXCEPT !.pauses = @ + 1]
  /\ eng' = IF eng.st.isPaused THEN resume(eng) ELSE pause(eng)
  /\ lastOp' = IF eng.st.isPaused THEN "resume" ELSE "pause"
  /\ UNCHANGED <<mode, notClientVars>>

\* a chain-reaction callback runs: setTimeout(() => this.explodeBomb(chainBomb), 50)
ChainTimeout ==
  /\ mode = "client"
  /\ eng.timeouts # <<>>
  /\ LET b == Head(eng.timeouts) IN
       /\ eng' = Reachable(GameEngine_explodeBomb([Begin(eng) EXCEPT !.timeouts = Tail(@)], b))
       /\ lastOp' = IF eng.bombObjs[b].isDetonated THEN "timeout:detonated"
                    ELSE IF b \in SeqToSet(eng.st.bombs) THEN "timeout:listed"
                    ELSE "timeout:unlisted"
  /\ UNCHANGED <<mode, notClientVars, inputs>>

InitEngine ==
  /\ mode = "client"
  /\ lastOp = "init"
  /\ \E multi \in BOOLEAN : eng = [NewEngine EXCEPT !.isMultiplayer = multi]
  /\ inputs = NoInputs
  /\ BossRest
  /\ ServerRest
  /\ LobbyRest
  /\ PathRest
  /\ FcallRest

NextEngine ==
  \/ LoadLevel
  \/ \E i \in 1 .. InputPlayers :
       MovePlayer(i) \/ PlaceBomb(i) \/ Detonate(i) \/ CollectPowerUp(i)
  \/ GameLoop
  \/ ChainTimeout

SpecEngine == InitEngine /\ [][NextEngine]_vars

(***************************************************************************)
(* The procedures of the tRPC rooms router                                 *)
(***************************************************************************)
\* a call of a procedure by an authenticated user arrives: the tables after
\* it, and its answer (success or the message of the TRPCError thrown)
Answer(call, db, reply) ==
  /\ mode = "lobby"
  /\ lobby.calls < MaxLobbyCalls
  /\ lobby' = [db EXCEPT !.calls = lobby.calls + 1, !.call = call, !.reply = reply]
  /\ lastOp' = call.proc
  /\ UNCHANGED <<mode, notLobbyVars>>

\* rooms.create
rooms_create(u) ==
  /\ lobby.nextRoom <= MaxLobbyRooms
  /\ \E maxPlayers \in 2 .. MaxLobbyCapacity, isPrivate \in BOOLEAN,
        password \in LobbyPasswords \cup {"undefined"} :
       LET roomId == lobby.nextRoom
           db1 == createRoom([lobby EXCEPT !.nextRoom = @ + 1],
                             [id |-> roomId, hostId |-> u, maxPlayers |-> maxPlayers,
                              isPrivate |-> isPrivate,
                              password |-> IF password = "undefined" THEN "NULL"
                                           ELSE password])
       IN Answer([proc |-> "create", user |-> u, roomId |-> roomId, password |-> password],
                 addPlayerToRoom(db1, RoomPlayerRow(roomId, u, 0, TRUE, TRUE)),
                 "success")

\* rooms.join
rooms_join(u) ==
  \E roomId \in LobbyRoomIds, password \in LobbyPasswords \cup {"undefined"} :
    LET room == getRoom(lobby, roomId)
        call == [proc |-> "join", user |-> u, roomId |-> roomId, password |-> password]
    IN IF room = NoRow THEN Answer(call, lobby, "Room not found")
       ELSE IF room.status # "waiting" THEN Answer(call, lobby, "Game already started")
       ELSE IF room.playerCount # 0 /\ room.maxPlayers # 0
                 /\ room.playerCount >= room.maxPlayers
         THEN Answer(call, lobby, "Room is full")
       ELSE IF room.isPrivate /\ room.password # password
         THEN Answer(call, lobby, "Invalid password")
       ELSE Answer(call,
                   addPlayerToRoom(lobby,
                     RoomPlayerRow(roomId, u, lobbySlot(getRoomPlayers(lobby, roomId)),
                                   FALSE, FALSE)),
                   "success")

\* rooms.leave
rooms_leave(u) ==
  \E roomId \in LobbyRoomIds :
    LET room == getRoom(lobby, roomId)
        call == [proc |-> "leave", user |-> u, roomId |-> roomId, password |-> "undefined"]
    IN IF room = NoRow THEN Answer(call, lobby, "Room not found")
       ELSE IF room.hostId = u THEN Answer(call, deleteRoom(lobby, roomId), "success")
       ELSE Answer(call, removePlayerFromRoom(lobby, roomId, u), "success")

\* rooms.setReady
rooms_setReady(u) ==
  \E roomId \in LobbyRoomIds, isReady \in BOOLEAN :
    Answer([proc |-> "setReady", user |-> u, roomId |-> roomId, password |-> "undefined"],
           updatePlayerReady(lobby, roomId, u, isReady), "success")

\* rooms.start
rooms_start(u) ==
  \E roomId \in LobbyRoomIds :
    LET room == getRoom(lobby, roomId)
        players == getRoomPlayers(lobby, roomId)
        call == [proc |-> "start", user |-> u, roomId |-> roomId, password |-> "undefined"]
    IN IF room = NoRow THEN Answer(call, lobby, "Room not found")
       ELSE IF room.hostId # u THEN Answer(call, lobby, "Only host can start the game")
       ELSE IF ~\A i \in 1 .. Len(players) : players[i].isReady \/ players[i].isHost
         THEN Answer(call, lobby, "Not all players are ready")
       ELSE Answer(call, [lobby EXCEPT !.gameRooms[roomId].status = "playing"], "success")

InitLobby ==
  /\ mode = "lobby"
  /\ lastOp = "init"
  /\ LobbyRest
  /\ PathRest
  /\ FcallRest
  /\ BossRest
  /\ ServerRest
  /\ ClientRest

NextLobby ==
  \E u \in LobbyUsers :
    \/ rooms_create(u) \/ rooms_join(u) \/ rooms_leave(u)
    \/ rooms_setReady(u) \/ rooms_start(u)

SpecLobby == InitLobby /\ [][NextLobby]_vars

\* EnemyAI: gameEngine.moveEnemy(enemy, direction.x, direction.y, deltaTime)
Directions == {<<0, -1>>, <<0, 1>>, <<-1, 0>>, <<1, 0>>}
MoveEnemy(k) ==
  /\ mode = "move"
  /\ inputs.enemyMoves < MaxEnemyMoves
  /\ inputs' = [inputs EXCEPT !.enemyMoves = @ + 1]
  /\ k <= Len(eng.st.enemies)
  /\ \E d \in Directions, dist \in WalkSteps :
       eng' = Reachable(moveEnemy(Begin(eng), k, d[1], d[2], dist))
  /\ lastOp' = "moveEnemy"
  /\ UNCHANGED <<mode, notClientVars>>

\* EnemyAI.update: updateEnemy(enemy, deltaTime) for a slime
UpdateOp(k) == "updateEnemy:" \o ToString(k)
UpdateEnemy(k) ==
  /\ mode = "move"
  /\ inputs.enemyMoves < MaxEnemyMoves
  /\ inputs' = [inputs EXCEPT !.enemyMoves = @ + 1]
  /\ k <= Len(eng.st.enemies)
  /\ eng.st.enemies[k].type = "slime"
  /\ \E expired \in BOOLEAN, dir \in RandomDirs(eng, eng.st.enemies[k]), dist \in WalkSteps :
       eng' = Reachable(updateEnemy(Begin(eng), k, expired, dir, dist))
  /\ lastOp' = UpdateOp(k)
  /\ UNCHANGED <<mode, notClientVars>>

\* A game in progress on level 3, whose blocks are some of WalkBlocks: the
\* player, the slime and the ghost have walked to cells of row 7 next to
\* the left border.
WalkBlocks == {<<2, 7>>}
WalkCells == {<<1, 7>>, <<3, 7>>}
SlimeCell == <<3, 7>>
GhostCell == <<1, 7>>
At(entity, cell) ==
  [entity EXCEPT !.x = gridToPixel(cell[1]), !.y = gridToPixel(cell[2]),
                 !.col = cell[1], !.row = cell[2]]

InitMove ==
  /\ mode = "move"
  /\ lastOp = "init"
  /\ \E blocks \in SUBSET WalkBlocks, cell \in WalkCells :
       eng = [Component_loadLevel(NewEngine, 3, blocks)
                EXCEPT !.loads = 1,
                       !.st.players[1] = At(@, cell),
                       !.st.enemies[1] = At(@, SlimeCell),
                       !.st.enemies[2] = At(@, GhostCell)]
  /\ inputs = NoInputs
  /\ BossRest
  /\ ServerRest
  /\ LobbyRest
  /\ PathRest
  /\ FcallRest

NextMove ==
  \/ \E i \in 1 .. InputPlayers : MovePlayer(i) \/ PlaceBomb(i)
  \/ \E k \in 1 .. 2 : MoveEnemy(k)

SpecMove == InitMove /\ [][NextMove]_vars

\* A game in progress: level 1 or 5 has been loaded, and the first player
\* has walked to one of HazardCells and has 1 .. PLAYER_LIVES lives left.
HazardLevels == {1, 5}
HazardCells == {<<1, 1>>, <<7, 5>>}

InitHazard ==
  /\ mode = "client"
  /\ lastOp = "init"
  /\ \E multi \in BOOLEAN, id \in HazardLevels, cell \in HazardCells,
        lives \in 1 .. PLAYER_LIVES :
       eng = [Component_loadLevel([NewEngine EXCEPT !.isMultiplayer = multi], id, {})
                EXCEPT !.loads = 1,
                       !.st.players[1].x = gridToPixel(cell[1]),
                       !.st.players[1].y = gridToPixel(cell[2]),
                       !.st.players[1].col = cell[1],
                       !.st.players[1].row = cell[2],
                       !.st.players[1].lives = lives]
  /\ inputs = NoInputs
  /\ BossRest
  /\ ServerRest
  /\ LobbyRest
  /\ PathRest
  /\ FcallRest

\* the players walk and lay bombs while the frames go by
NextHazard ==
  \/ \E i \in 1 .. InputPlayers : MovePlayer(i) \/ PlaceBomb(i)
  \/ GameLoop

SpecHazard == InitHazard /\ [][NextHazard]_vars

(***************************************************************************)
(* findPath, one step per pass of its loops                                *)
(***************************************************************************)
\* while (openSet.length > 0 && iterations < maxIterations): one pass
PathIterate ==
  /\ mode = "path" /\ search.pc = "while"
  /\ search.openSet # <<>> /\ search.iterations < search.maxIterations
  /\ search' = iteration(search, lowest(search, 2, 1))
  /\ lastOp' = "findPath:iterate"
  /\ UNCHANGED <<mode, notPathVars>>

\* the while loop ends: return []
PathGiveUp ==
  /\ mode = "path" /\ search.pc = "while"
  /\ search.openSet = <<>> \/ search.iterations >= search.maxIterations
  /\ search' = [search EXCEPT !.pc = "returned", !.path = <<>>]
  /\ lastOp' = "findPath:none"
  /\ UNCHANGED <<mode, notPathVars>>

\* while (cameFrom.has(key(current))): one pass.  The loop has no bound of
\* its own; the model keeps the last MaxPathLen cells of a longer path.
PathUnshift ==
  /\ mode = "path" /\ search.pc = "reconstruct"
  /\ search.cameFrom[search.current] # NoCell
  /\ search' = [search EXCEPT !.current = search.cameFrom[search.current],
                              !.path = IF Len(@) < MaxPathLen
                                         THEN <<search.cameFrom[search.current]>> \o @
                                         ELSE @]
  /\ lastOp' = "findPath:unshift"
  /\ UNCHANGED <<mode, notPathVars>>

\* the reconstruction ends: return path
PathReturn ==
  /\ mode = "path" /\ search.pc = "reconstruct"
  /\ search.cameFrom[search.current] = NoCell
  /\ search' = [search EXCEPT !.pc = "returned"]
  /\ lastOp' = "findPath:path"
  /\ UNCHANGED <<mode, notPathVars>>

InitPath ==
  /\ mode = "path"
  /\ lastOp = "init"
  /\ \E start \in PathCells, end \in PathCells, walkable \in SUBSET PathCells,
        maxIterations \in 0 .. MaxIterations :
       search = NewSearch(start, end, walkable, maxIterations)
  /\ BossRest
  /\ ServerRest
  /\ ClientRest
  /\ LobbyRest
  /\ FcallRest

NextPath == PathIterate \/ PathGiveUp \/ PathUnshift \/ PathReturn

\* a call of findPath runs on as long as it has a step to take
SpecPath == InitPath /\ [][NextPath]_vars /\ WF_vars(NextPath)

\* a splitter stands in an explosion: the level is running with one
\* splitter on a cell of SplitCells, blocks on some of the cells around it
\* and an explosion tile on its cell
SplitCells == {<<7, 9>>, <<3, 4>>, <<11, 5>>}
SplitBlocks == {<<6, 9>>, <<8, 9>>, <<3, 3>>, <<10, 5>>}
InitSplit ==
  /\ mode = "client"
  /\ lastOp = "init"
  /\ \E cell \in SplitCells, blocks \in SUBSET SplitBlocks :
       eng = [Component_loadLevel(NewEngine, 1, blocks)
                EXCEPT !.loads = 1,
                       !.st.enemies = <<spawnEnemy(1, "splitter", cell)>>,
                       !.nextEnemy = 2,
                       !.st.explosions = <<NewExplosion(cell[1], cell[2])>>]
  /\ inputs = NoInputs
  /\ BossRest
  /\ ServerRest
  /\ LobbyRest
  /\ PathRest
  /\ FcallRest

NextSplit ==
  \/ \E i \in 1 .. InputPlayers : MovePlayer(i) \/ PlaceBomb(i)
  \/ GameLoop

SpecSplit == InitSplit /\ [][NextSplit]_vars

\* what savePlayerStats keeps of a player with one bomb_count power-up
CarriedStats == [maxBombs |-> BOMB_DEFAULT_COUNT + 1, fireRange |-> BOMB_DEFAULT_RANGE,
                 bombType |-> "normal"]

\* level 1 on a fresh engine, the player having walked to a cell and having
\* some lives left
FirstLevel(cell, lives) ==
  [Component_loadLevel(NewEngine, 1, {})
     EXCEPT !.loads = 1,
            !.st.players[1].x = gridToPixel(cell[1]),
            !.st.players[1].y = gridToPixel(cell[2]),
            !.st.players[1].col = cell[1],
            !.st.players[1].row = cell[2],
            !.st.players[1].lives = lives]

\* the same level completed: the player has collected a bomb_count
\* power-up, the last enemy is dead and checkLevelCompletion has run
CompletedLevel(cell, lives) ==
  checkLevelCompletion([FirstLevel(cell, lives)
                          EXCEPT !.st.players[1].maxBombs = CarriedStats.maxBombs,
                                 !.st.enemies = <<>>], 1)

\* A level is running: the first level of a fresh engine, or the level
\* loaded after an earlier one was completed; the player created by that
\* second load stands on its spawn cell with all or one of its lives.
InitCarry ==
  /\ mode = "client"
  /\ lastOp = "init"
  /\ \E carried \in BOOLEAN, cell \in HazardCells, lives \in 1 .. PLAYER_LIVES,
        later \in {1, PLAYER_LIVES} :
       eng = IF carried
               THEN [Component_loadLevel(CompletedLevel(cell, lives), 1, {})
                       EXCEPT !.loads = 1, !.st.players[2].lives = later]
               ELSE FirstLevel(cell, lives)
  /\ inputs = NoInputs
  /\ BossRest
  /\ ServerRest
  /\ LobbyRest
  /\ PathRest
  /\ FcallRest

\* the level goes on with the players where they stand, power-ups are
\* collected, the level is loaded again after a game over or a victory
NextCarry ==
  \/ \E i \in 1 .. InputPlayers : PlaceBomb(i) \/ CollectPowerUp(i)
  \/ GameLoop
  \/ LoadLevel

SpecCarry == InitCarry /\ [][NextCarry]_vars

\* the engine as constructed by the component, before its first loadLevel
InitLoad ==
  /\ mode = "client"
  /\ lastOp = "init"
  /\ eng = NewEngine
  /\ inputs = NoInputs
  /\ BossRest
  /\ ServerRest
  /\ LobbyRest
  /\ PathRest
  /\ FcallRest

\* levels are loaded, by ids and with level data that may be absent, and
\* played
NextLoad ==
  \/ LoadLevelOf
  \/ \E i \in 1 .. InputPlayers : MovePlayer(i) \/ PlaceBomb(i)
  \/ GameLoop

SpecLoad == InitLoad /\ [][NextLoad]_vars

\* A game in progress on level 1, whose blocks are some of EvadeBlocks: the
\* player and the slime have walked to cells next to the top left corner,
\* the slime idle or moving to the right.
EvadeBlocks == {<<3, 1>>, <<1, 4>>}
EvadePlayerCells == {<<1, 2>>, <<1, 3>>}
EvadeSlimeCells == {<<1, 1>>, <<2, 1>>}
InitEvade ==
  /\ mode = "move"
  /\ lastOp = "init"
  /\ \E blocks \in SUBSET EvadeBlocks, cell \in EvadePlayerCells,
        spot \in EvadeSlimeCells, moving \in BOOLEAN :
       eng = [Component_loadLevel(NewEngine, 1, blocks)
                EXCEPT !.loads = 1,
                       !.st.players[1] = At(@, cell),
                       !.st.enemies[1] =
                          [At(@, spot) EXCEPT
                             !.state = IF moving THEN "moving" ELSE "idle",
                             !.direction = IF moving THEN <<1, 0>> ELSE <<0, 0>>]]
  /\ inputs = NoInputs
  /\ BossRest
  /\ ServerRest
  /\ LobbyRest
  /\ PathRest
  /\ FcallRest

\* the player walks and lays bombs, the AI updates the slime
NextEvade ==
  \/ \E i \in 1 .. InputPlayers : MovePlayer(i) \/ PlaceBomb(i)
  \/ \E k \in 1 .. 2 : UpdateEnemy(k)

SpecEvade == InitEvade /\ [][NextEvade]_vars

\* A level is running, the player having one or two bombs to lay; the keys
\* are read while the state is playing, the pause key at any time, and the
\* chain-reaction callbacks run when their time has come.
InitPause ==
  /\ mode = "client"
  /\ lastOp = "init"
  /\ \E cell \in HazardCells, lives \in {1, PLAYER_LIVES},
        maxBombs \in BOMB_DEFAULT_COUNT .. MaxEngineMaxBombs :
       eng = [FirstLevel(cell, lives) EXCEPT !.st.players[1].maxBombs = maxBombs]
  /\ inputs = NoInputs
  /\ BossRest
  /\ ServerRest
  /\ LobbyRest
  /\ PathRest
  /\ FcallRest

NextPause ==
  \/ \E i \in 1 .. InputPlayers : eng.st.state = "playing" /\ (MovePlayer(i) \/ PlaceBomb(i))
  \/ GameLoop
  \/ ChainTimeout
  \/ TogglePause

SpecPause == InitPause /\ [][NextPause]_vars

(***************************************************************************)
(* Explosions on their own: createExplosion of the client engine and the   *)
(* blast of the server's explodeBomb, applied to a grid as its constructor *)
(* left it and then to the grids the explosions leave                      *)
(***************************************************************************)
\* explosions made one after the other on a grid
MaxBlasts == 2
\* the largest range of a bomb
MaxBlastRange == 3
\* where the bombs explode: in the open, in a corner of the border, and
\* between two walls of an even row
BlastCentres == {<<5, 5>>, <<1, 1>>, <<3, 2>>}
\* the cells that the grid's constructor may fill with a block
BlastBlocks == {<<6, 5>>, <<7, 5>>, <<5, 2>>}
BlastSides == {"client", "server"}
GridCells == (0 .. GRID_WIDTH - 1) \X (0 .. GRID_HEIGHT - 1)

\* the grid a side's constructor builds with the blocks drawn:
\* LevelData.createGrid loaded by loadLevel, generateGrid(15, 13)
BuiltGrid(side, blocks) ==
  IF side = "client" THEN [loaded |-> TRUE, blocks |-> blocks]
  ELSE generateGrid(blocks)

\* the value of every cell of the grid (state.grid[row][col].type,
\* room.grid[y][x])
TilesOf(side, grid) ==
  [c \in GridCells |-> IF side = "client" THEN TileType(grid, c[1], c[2])
                                           ELSE GridAt(grid, c[1], c[2])]

\* the server's Bomb that explodes
BlastBomb(c, range, piercing) ==
  NewBomb(1, 1, c[1], c[2], range, IF piercing THEN "pierce" ELSE "normal")

\* the engine on which createExplosion runs
BlastEngine(grid) == [NewEngine EXCEPT !.st.grid = grid]

\* the cells that get a hazard tile, in the order the code makes them
Hazards(side, grid, c, range, piercing) ==
  IF side = "client"
    THEN LET x == createExplosion(BlastEngine(grid), c[1], c[2], range, piercing).st.explosions
         IN {<<x[i].col, x[i].row>> : i \in 1 .. Len(x)}
    ELSE explosionTiles(grid, BlastBomb(c, range, piercing))

\* how many hazard tiles are made (explosions pushed, explosionTiles.length)
Produced(side, grid, c, range, piercing) ==
  IF side = "client"
    THEN Len(createExplosion(BlastEngine(grid), c[1], c[2], range, piercing).st.explosions)
    ELSE Cardinality(explosionTiles(grid, BlastBomb(c, range, piercing)))

\* the grid after the explosion
GridAfter(side, grid, c, range, piercing) ==
  IF side = "client"
    THEN createExplosion(BlastEngine(grid), c[1], c[2], range, piercing).st.grid
    ELSE gridAfterBlast(grid, BlastBomb(c, range, piercing))

\* the cells the explosion writes: destroyBlock(pos) for the tiles whose type
\* is BLOCK, room.grid[ty][tx] = 0 for the tiles that hold 2
Written(side, grid, c, range, piercing) ==
  IF side = "client"
    THEN LET arms == ExplosionArms(grid, c[1], c[2], range, piercing)
         IN {<<arms[i].col, arms[i].row>> : i \in {j \in 1 .. Len(arms) : arms[j].block}}
    ELSE {t \in armsTiles(grid, BlastBomb(c, range, piercing)) : GridAt(grid, t[1], t[2]) = 2}

\* the cells of the grid after the writes: tile.type = EMPTY, grid[ty][tx] = 0
Cleared(side, tiles, written) ==
  [t \in GridCells |-> IF t \in written THEN (IF side = "client" THEN "EMPTY" ELSE 0)
                                         ELSE tiles[t]]

NewBlast(side, blocks) ==
  [fn |-> "blast", side |-> side, n |-> 0,
   grid |-> BuiltGrid(side, blocks),
   tiles |-> TilesOf(side, BuiltGrid(side, blocks)),
   before |-> BuiltGrid(side, blocks),
   centre |-> <<0, 0>>, range |-> 0, piercing |-> FALSE,
   hazards |-> {}, produced |-> 0, written |-> {}]

\* a bomb of the given range and type explodes on the cell c
Explode(c, range, piercing) ==
  /\ mode = "blast"
  /\ fcall.n < MaxBlasts
  /\ fcall' =
       [fcall EXCEPT
          !.n = @ + 1,
          !.before = fcall.grid,
          !.centre = c, !.range = range, !.piercing = piercing,
          !.hazards = Hazards(fcall.side, fcall.grid, c, range, piercing),
          !.produced = Produced(fcall.side, fcall.grid, c, range, piercing),
          !.written = Written(fcall.side, fcall.grid, c, range, piercing),
          !.grid = GridAfter(fcall.side, fcall.grid, c, range, piercing),
          !.tiles = Cleared(fcall.side, @,
                            Written(fcall.side, fcall.grid, c, range, piercing))]
  /\ lastOp' = "explode"
  /\ UNCHANGED <<mode, notFcallVars>>

InitBlast ==
  /\ mode = "blast"
  /\ lastOp = "init"
  /\ \E side \in BlastSides, blocks \in SUBSET BlastBlocks :
       fcall = NewBlast(side, blocks)
  /\ BossRest
  /\ ServerRest
  /\ ClientRest
  /\ LobbyRest
  /\ PathRest

NextBlast ==
  \E c \in BlastCentres, range \in 1 .. MaxBlastRange, piercing \in BOOLEAN :
    Explode(c, range, piercing)

SpecBlast == InitBlast /\ [][NextBlast]_vars

(***************************************************************************)
(* Concurrent calls of rooms.join: one step per awaited database statement *)
(***************************************************************************)
\* the host of the room the calls are about, a user other than the callers
JoinHost == NLobbyUsers + 1

\* db.insert(roomPlayers).values(data)
insertRoomPlayer(db, data) == [db EXCEPT !.roomPlayers = Append(@, data)]

\* db.updateRoom(roomId, {playerCount})
updateRoom(db, roomId, playerCount) ==
  IF getRoom(db, roomId) = NoRow THEN db
  ELSE [db EXCEPT !.gameRooms[roomId].playerCount = playerCount]

\* the locals of a call of rooms.join, and where it stands
NoJoin == [pc |-> "idle", roomId |-> 0, slot |-> 0, playerCount |-> 0]

\* rooms.join up to its first await: db.getRoom and the tests on the row
JoinGetRoom(u) ==
  /\ mode = "join" /\ fcall.job[u].pc = "idle"
  /\ lobby.calls < MaxLobbyCalls
  /\ \E roomId \in LobbyRoomIds, password \in LobbyPasswords \cup {"undefined"} :
       LET room == getRoom(lobby, roomId)
           reply == IF room = NoRow THEN "Room not found"
                    ELSE IF room.status # "waiting" THEN "Game already started"
                    ELSE IF room.playerCount # 0 /\ room.maxPlayers # 0
                              /\ room.playerCount >= room.maxPlayers
                      THEN "Room is full"
                    ELSE IF room.isPrivate /\ room.password # password
                      THEN "Invalid password"
                    ELSE "none"
       IN /\ lobby' = [lobby EXCEPT !.calls = @ + 1,
                                     !.call = [proc |-> "join", user |-> u, roomId |-> roomId,
                                               password |-> password],
                                     !.reply = reply]
          /\ fcall' = [fcall EXCEPT !.job[u] =
                         IF reply = "none" THEN [NoJoin EXCEPT !.pc = "getRoomPlayers",
                                                               !.roomId = roomId]
                         ELSE NoJoin]
  /\ lastOp' = "join:getRoom"
  /\ UNCHANGED <<mode, bossVars, serverVars, clientVars, pathVars>>

\* db.getRoomPlayers and the choice of the slot
JoinGetRoomPlayers(u) ==
  /\ mode = "join" /\ fcall.job[u].pc = "getRoomPlayers"
  /\ fcall' = [fcall EXCEPT !.job[u].pc = "insert",
                            !.job[u].slot =
                               lobbySlot(getRoomPlayers(lobby, fcall.job[u].roomId))]
  /\ lastOp' = "join:getRoomPlayers"
  /\ UNCHANGED <<mode, notFcallVars>>

\* addPlayerToRoom: the insert
JoinInsert(u) ==
  /\ mode = "join" /\ fcall.job[u].pc = "insert"
  /\ lobby' = insertRoomPlayer(lobby, RoomPlayerRow(fcall.job[u].roomId, u,
                                                    fcall.job[u].slot, FALSE, FALSE))
  /\ fcall' = [fcall EXCEPT !.job[u].pc = "count"]
  /\ lastOp' = "join:insert"
  /\ UNCHANGED <<mode, bossVars, serverVars, clientVars, pathVars>>

\* addPlayerToRoom: getRoom(data.roomId)
JoinCount(u) ==
  /\ mode = "join" /\ fcall.job[u].pc = "count"
  /\ fcall' = [fcall EXCEPT
                 !.job[u].pc = IF getRoom(lobby, fcall.job[u].roomId) = NoRow
                                 THEN "idle" ELSE "updateRoom",
                 !.job[u].playerCount =
                    IF getRoom(lobby, fcall.job[u].roomId) = NoRow THEN 0
                    ELSE getRoom(lobby, fcall.job[u].roomId).playerCount]
  /\ lastOp' = "join:count"
  /\ UNCHANGED <<mode, notFcallVars>>

\* addPlayerToRoom: updateRoom(data.roomId, {playerCount: (room.playerCount || 0) + 1}),
\* after which the call returns
JoinUpdateRoom(u) ==
  /\ mode = "join" /\ fcall.job[u].pc = "updateRoom"
  /\ lobby' = [updateRoom(lobby, fcall.job[u].roomId, fcall.job[u].playerCount + 1)
                 EXCEPT !.reply = "success"]
  /\ fcall' = [fcall EXCEPT !.job[u] = NoJoin]
  /\ lastOp' = "join:success"
  /\ UNCHANGED <<mode, bossVars, serverVars, clientVars, pathVars>>

\* a room has been created by JoinHost (rooms.create, on its own)
InitJoin ==
  /\ mode = "join"
  /\ lastOp = "init"
  /\ \E maxPlayers \in 2 .. MaxLobbyCapacity, isPrivate \in BOOLEAN :
       lobby = addPlayerToRoom(
                 createRoom([NewLobby EXCEPT !.nextRoom = @ + 1],
                            [id |-> 1, hostId |-> JoinHost, maxPlayers |-> maxPlayers,
                             isPrivate |-> isPrivate, password |-> "pw1"]),
                 RoomPlayerRow(1, JoinHost, 0, TRUE, TRUE))
  /\ fcall = [fn |-> "join", job |-> [u \in LobbyUsers |-> NoJoin]]
  /\ BossRest
  /\ ServerRest
  /\ ClientRest
  /\ PathRest

NextJoin ==
  \E u \in LobbyUsers :
    \/ JoinGetRoom(u) \/ JoinGetRoomPlayers(u) \/ JoinInsert(u)
    \/ JoinCount(u) \/ JoinUpdateRoom(u)

SpecJoin == InitJoin /\ [][NextJoin]_vars

(***************************************************************************)
(* Procedural maps without the LLM (src/unnamed/part_004,                  *)
(* generateMapFallback)                                                    *)
(***************************************************************************)
\* waves range over 1 .. MaxWave
MaxWave == 6
MapWidth == 15
MapHeight == 13
MapCells == (0 .. MapWidth - 1) \X (0 .. MapHeight - 1)
MapDifficulties == {"normal", "hard", "insane"}
THEMES == <<"forest", "cave", "volcano", "shadow", "castle", "ice", "desert", "tech">>
\* the cells for which a Math.random() of a pass over the grid may come out
\* below the pass's threshold; for all other cells it comes out above
MapDraws == {<<1, 1>>, <<5, 5>>, <<3, 5>>}

\* the base grid: border walls, walls on the even intersections, empty
\* spawn zones, elsewhere a block where Math.random() < blockChance (first)
baseGrid(width, height, first) ==
  [c \in MapCells |->
     IF c[1] = 0 \/ c[1] = width - 1 \/ c[2] = 0 \/ c[2] = height - 1 THEN 1
     ELSE IF c[1] % 2 = 0 /\ c[2] % 2 = 0 THEN 1
     ELSE IF IsSpawnZone(c[1], c[2], width, height) THEN 0
     ELSE IF c \in first THEN 2 ELSE 0]

\* the variety pass: on a boss wave blocks of the middle are removed, on a
\* maze wave empty cells inside the border get a block, where Math.random()
\* is below the threshold (second)
varied(wave, width, height, grid, second) ==
  IF wave % 5 = 0
    THEN [c \in MapCells |->
            IF /\ c[1] >= 4 /\ c[1] < width - 4 /\ c[2] >= 4 /\ c[2] < height - 4
               /\ grid[c] = 2 /\ c \in second
              THEN 0 ELSE grid[c]]
  ELSE IF wave % 3 = 0
    THEN [c \in MapCells |->
            IF /\ c[1] >= 1 /\ c[1] < width - 1 /\ c[2] >= 1 /\ c[2] < height - 1
               /\ grid[c] = 0 /\ c \in second
              THEN 2 ELSE grid[c]]
  ELSE grid

\* generateMapFallback(wave, difficulty): the grid, the number of enemies
\* and of power-ups it tries to place (neither writes the grid), the theme
generateMapFallback(wave, difficulty, first, second) ==
  [grid |-> varied(wave, MapWidth, MapHeight, baseGrid(MapWidth, MapHeight, first), second),
   enemyCount |->
     Min(3 + (wave * (IF difficulty = "insane" THEN 4
                      ELSE IF difficulty = "hard" THEN 3 ELSE 2)) \div 4, 15),
   powerUpCount |-> 2 + (wave * 3) \div 10,
   theme |-> THEMES[(((wave - 1) \div 5) % Len(THEMES)) + 1],
   difficulty |-> wave]

NoMap == [difficulty |-> 0]

\* a call of generateMapFallback returns
GenerateMap ==
  /\ mode = "map"
  /\ fcall.map = NoMap
  /\ fcall' = [fcall EXCEPT !.map = generateMapFallback(fcall.wave, fcall.difficulty,
                                                         fcall.first, fcall.second)]
  /\ lastOp' = "generateMapFallback"
  /\ UNCHANGED <<mode, notFcallVars>>

InitMap ==
  /\ mode = "map"
  /\ lastOp = "init"
  /\ \E wave \in 1 .. MaxWave, difficulty \in MapDifficulties,
        first \in SUBSET MapDraws, second \in SUBSET MapDraws :
       fcall = [fn |-> "map", wave |-> wave, difficulty |-> difficulty,
                first |-> first, second |-> second, map |-> NoMap]
  /\ BossRest
  /\ ServerRest
  /\ ClientRest
  /\ LobbyRest
  /\ PathRest

NextMap == GenerateMap

SpecMap == InitMap /\ [][NextMap]_vars

(***************************************************************************)
(* Properties of the multiplayer server                                    *)
(***************************************************************************)
LiveRooms == {r \in RoomIds : rooms[r] # NoRoom}

\* C3: a room never holds two live bombs on the same (x, y) cell.
C3_OneBombPerCell ==
  \A r \in LiveRooms :
    \A i, j \in 1 .. Len(rooms[r].bombs) :
      i # j => <<rooms[r].bombs[i].x, rooms[r].bombs[i].y>>
                 # <<rooms[r].bombs[j].x, rooms[r].bombs[j].y>>

StaleTimerOps == {"timer:no_room", "timer:no_bomb"}

\* C5: a deferred explosion callback that fires after its bomb has exploded
\* or after its room was deleted only consumes the timer: it changes no room,
\* no socket index and broadcasts nothing; and no bomb id is ever announced
\* by more than one bomb_exploded.
C5_StaleCallbackNoOp ==
  /\ [][ lastOp' \in StaleTimerOps
           => /\ rooms' = rooms /\ playerRooms' = playerRooms /\ sent' = sent
              /\ Len(timers') = Len(timers) - 1 ]_vars
  /\ [](\A b \in BombIds : sent.bomb_exploded[b] <= 1)

\* a countdown callback found its bomb already exploded
C5_Witness ==
  /\ mode = "server" /\ lastOp = "timer:no_bomb"
  /\ \E b \in BombIds : sent.bomb_exploded[b] = 1

StartReplies(s) ==
  {StartReply(s, r) : r \in {"none", "error:Only host can start the game",
                             "error:Not all players are ready", "game_started"}}

\* C11: a start_game request of a room member is answered with game_started,
\* the room becoming playing, exactly when the sender is the room's host and
\* every other player of the room is ready; otherwise it is answered with an
\* error message and leaves the rooms as they are.
C11_StartOnlyByHostAllReady ==
  [][ \A s \in Sockets :
        (lastOp' \in StartReplies(s) /\ InRoom(s))
          => IF RoomOf(s).hostId = s
                /\ \A i \in 1 .. Len(RoomOf(s).players) :
                      RoomOf(s).players[i].id # s => RoomOf(s).players[i].isReady
               THEN /\ lastOp' = StartReply(s, "game_started")
                    /\ rooms'[playerRooms[s]].gameState = "playing"
               ELSE /\ lastOp' \in {StartReply(s, "error:Only host can start the game"),
                                    StartReply(s, "error:Not all players are ready")}
                    /\ rooms' = rooms /\ playerRooms' = playerRooms ]_vars

\* the host has just started a game in a room with a second, ready player
C11_Witness ==
  /\ mode = "server"
  /\ \E s \in Sockets :
       /\ lastOp = StartReply(s, "game_started")
       /\ InRoom(s) /\ Len(RoomOf(s).players) = 2
       /\ RoomOf(s).gameState = "playing"

\* every player of the room is dead
AllDead(room) == \A i \in 1 .. Len(room.players) : ~room.players[i].isAlive

\* C14: a step that leaves every player of a co-op room dead, be it a
\* player_death message or a bomb's blast, sets the room's gameState to
\* finished and broadcasts game_over to the room.
C14_AllDeadEndsCoopGame ==
  [][ \A r \in RoomIds :
        ( /\ rooms[r] # NoRoom /\ rooms'[r] # NoRoom
          /\ rooms'[r].gameMode = "coop"
          /\ ~AllDead(rooms[r]) /\ AllDead(rooms'[r]) )
          => /\ rooms'[r].gameState = "finished"
             /\ sent'.game_over[r] = Inc(sent.game_over[r]) ]_vars

\* handlePlayerLeave took the socket out of the room it was registered in
Leaves(s) ==
  /\ playerRooms[s] # 0 /\ playerRooms'[s] = 0
  /\ rooms[playerRooms[s]] # NoRoom

\* C13: when a player leaves or disconnects, its room is removed if no
\* player remains in it, and otherwise keeps the remaining players, with a
\* remaining player as host if the one who left was the host; hence every
\* room has at least one player and a host among its players at all times,
\* and a socket that has disconnected is a player of no room.
C13_LeaveRemovesOrHandsOver ==
  /\ [](\A r \in RoomIds :
          rooms[r] # NoRoom
            => Len(rooms[r].players) >= 1 /\ MapHas(rooms[r].players, rooms[r].hostId))
  /\ [][ \A s \in Sockets :
           Leaves(s)
             => LET r == playerRooms[s]
                    left == MapDelete(rooms[r].players, s)
                IN IF Len(left) = 0 THEN rooms'[r] = NoRoom
                   ELSE /\ rooms'[r] # NoRoom /\ rooms'[r].players = left
                        /\ IF rooms[r].hostId = s
                             THEN MapHas(left, rooms'[r].hostId)
                             ELSE rooms'[r].hostId = rooms[r].hostId ]_vars
  /\ [][ \A s \in Sockets :
           (sockets[s] = "open" /\ sockets'[s] = "closed")
             => \A r \in RoomIds :
                  rooms'[r] # NoRoom => ~MapHas(rooms'[r].players, s) ]_vars

(***************************************************************************)
(* Properties of the tRPC rooms router                                     *)
(***************************************************************************)
\* the step answers a call of the given procedure
Answers(proc) == lobby'.calls = lobby.calls + 1 /\ lobby'.call.proc = proc

\* C12: a join is answered with an error and changes neither table whenever
\* the room does not exist, its game is not waiting to start, the room holds
\* maxPlayers players, or it is private and the supplied password differs
\* from its password; in every other case the caller is added to the room.
C12_JoinRejectedForCause ==
  [][ Answers("join")
        => LET call == lobby'.call
               room == getRoom(lobby, call.roomId)
               cause == \/ room = NoRow
                        \/ room.status # "waiting"
                        \/ Len(getRoomPlayers(lobby, call.roomId)) >= room.maxPlayers
                        \/ room.isPrivate /\ room.password # call.password
           IN IF cause
                THEN /\ lobby'.reply # "success"
                     /\ lobby'.gameRooms = lobby.gameRooms
                     /\ lobby'.roomPlayers = lobby.roomPlayers
                ELSE /\ lobby'.reply = "success"
                     /\ Len(lobby'.roomPlayers) = Len(lobby.roomPlayers) + 1
                     /\ lobby'.roomPlayers[Len(lobby'.roomPlayers)].userId = call.user
                     /\ lobby'.roomPlayers[Len(lobby'.roomPlayers)].roomId = call.roomId ]_vars

(***************************************************************************)
(* Properties of the boss fight                                            *)
(***************************************************************************)
DamageOps == {"damageBoss", "engineFrame"}

\* C7: damage applied to the boss while it is not vulnerable changes neither
\* its health, its phase nor its state, whether it comes from
\* BossSystem.damageBoss or from the engine's boss-vs-hazard check; health
\* only ever decreases while the boss is vulnerable.
C7_DamageOnlyWhileVulnerable ==
  [][ /\ (lastOp' \in DamageOps /\ ~boss.isVulnerable)
           => /\ boss'.health = boss.health
              /\ boss'.phase = boss.phase
              /\ boss'.state = boss.state
      /\ (boss'.health < boss.health) => boss.isVulnerable ]_vars

DefeatEvents == events.onDefeated + events.bossDefeated

\* C8: damage that brings the health of a vulnerable boss to 0 or below puts
\* the boss into dying; a boss only becomes inactive by becoming defeated,
\* and then exactly one defeat event has fired.
C8_DyingThenDefeatedOnce ==
  [][ /\ (boss.isVulnerable /\ boss.health > 0 /\ boss'.health <= 0)
           => boss'.state = "dying"
      /\ (~boss'.active)
           => /\ boss'.state = "defeated"
              /\ events'.onDefeated + events'.bossDefeated = 1
      /\ boss'.active => events'.onDefeated + events'.bossDefeated = 0 ]_vars

BossEdges ==
  { <<"intro", "idle">>, <<"idle", "attacking">>, <<"attacking", "vulnerable">>,
    <<"vulnerable", "idle">>, <<"idle", "transition">>, <<"vulnerable", "transition">>,
    <<"transition", "idle">>, <<"vulnerable", "dying">>, <<"dying", "defeated">> }

\* C9: every change of the boss's state follows one of the edges of
\* BossEdges, and no update, damage call or engine step changes a defeated
\* boss.
C9_StateEdges ==
  [][ /\ boss'.state # boss.state => <<boss.state, boss'.state>> \in BossEdges
      /\ boss.state = "defeated" => boss' = boss ]_vars

\* C9 witness: a damage call has just been made on a defeated boss.
C9_Witness ==
  /\ mode = "boss"
  /\ boss.state = "defeated"
  /\ lastOp = "damageBoss"

\* C10: a phase transition starts exactly when accepted damage leaves
\* health/maxHealth at or below 1 - phase/maxPhases while phase < maxPhases;
\* it raises the phase by exactly one, the boss leaves the transition state
\* only for idle, at the incremented phase, and the phase never decreases
\* and never exceeds maxPhases.
C10_PhaseTransition ==
  [][ LET crossing ==
            /\ boss'.health < boss.health
            /\ boss.phase < boss.maxPhases
            /\ ExactAtOrBelowThreshold(boss'.health, boss.maxHealth,
                                       boss.phase, boss.maxPhases)
      IN /\ crossing <=> (boss.state # "transition" /\ boss'.state = "transition")
         /\ crossing => boss'.phase = boss.phase + 1
         /\ boss'.phase >= boss.phase
         /\ boss'.phase <= boss.maxPhases
         /\ (boss.state = "transition" /\ boss'.state # "transition")
              => (boss'.state = "idle" /\ boss'.phase = boss.phase) ]_vars

(***************************************************************************)
(* Properties of the client engine                                         *)
(***************************************************************************)
\* C1: explodeBomb is idempotent: a call on a bomb object that has already
\* detonated (here the call of a chain-reaction callback) leaves the game
\* state as it is - no hazard tile, no block destroyed, no activeBombs
\* decrement - and emits nothing; no bomb object is ever announced by more
\* than one bombExploded event.
C1_ExplodeBombIdempotent ==
  /\ [][ lastOp' = "timeout:detonated"
           => /\ eng'.st = eng.st
              /\ eng'.emitted = eng.emitted ]_vars
  /\ [](\A b \in EngineBombIds : eng.emitted.bombExploded[b] <= 1)

\* a chain-reaction callback has just called explodeBomb on a bomb that had
\* exploded before
C1_Witness ==
  /\ mode = "client" /\ lastOp = "timeout:detonated"
  /\ \E b \in EngineBombIds : eng.emitted.bombExploded[b] = 1

\* C2: no two bombs of state.bombs stand on the same grid cell.
C2_OneBombPerCell ==
  \A i, j \in 1 .. Len(eng.st.bombs) :
    i # j => <<eng.bombObjs[eng.st.bombs[i]].col, eng.bombObjs[eng.st.bombs[i]].row>>
               # <<eng.bombObjs[eng.st.bombs[j]].col, eng.bombObjs[eng.st.bombs[j]].row>>

\* placeBomb has just refused a player who may place another bomb but stands
\* on a cell that holds one
C2_Witness ==
  /\ mode = "client" /\ lastOp = "placeBomb:occupied"
  /\ eng.st.bombs # <<>>

\* C4: every live bomb standing on a tile of an explosion's blast set is
\* scheduled for a later detonation by that explosion.
C4_BlastSchedulesLiveBombs ==
  \A i \in 1 .. Len(eng.blasts) : eng.blasts[i].live \subseteq eng.blasts[i].scheduled

StaleChainOps == {"timeout:detonated", "timeout:unlisted"}

\* C6: a chain-reaction callback whose bomb is no longer in state.bombs (it
\* has exploded, or loadLevel cleared the list) creates no hazard tile,
\* destroys no block and changes no activeBombs counter.
C6_StaleChainCallbackNoOp ==
  [][ lastOp' \in StaleChainOps
        => /\ eng'.st.explosions = eng.st.explosions
           /\ eng'.st.grid = eng.st.grid
           /\ \A i \in 1 .. Len(eng.st.players) :
                eng'.st.players[i].activeBombs = eng.st.players[i].activeBombs ]_vars


\* every player of state.players is dead
NoPlayerAlive(st) == \A i \in 1 .. Len(st.players) : st.players[i].isDead

\* C15: a step in which the last living player runs out of lives leaves that
\* player dead and the state game_over, with one gameOver event emitted; and
\* the state is game_over only when no player is alive.
C15_LastDeathIsGameOver ==
  /\ [](eng.st.state = "game_over" => NoPlayerAlive(eng.st))
  /\ [][ \A i \in 1 .. Len(eng.st.players) :
           ( /\ i <= Len(eng'.st.players)
             /\ ~eng.st.players[i].isDead
             /\ eng'.st.players[i].lives <= 0
             /\ NoPlayerAlive(eng'.st) )
             => /\ eng'.st.players[i].isDead
                /\ eng'.st.state = "game_over"
                /\ eng'.emitted.gameOver = eng.emitted.gameOver + 1 ]_vars

\* the time one step of the engine's callers covers at most (a frame)
FrameTime == FrameSteps * fixedDeltaTime

LevelHasBoss(st) == getLevelById(st.currentLevel, {}).boss # NoBossDescriptor

\* C17: the state is victory only when no enemy is left and, on a level that
\* has a boss descriptor, the boss has been defeated.
C17_VictoryNeedsBossDefeated ==
  eng.st.state = "victory"
    => /\ eng.st.enemies = <<>>
       /\ LevelHasBoss(eng.st) => events.bossDefeated > 0

\* the positions one step away from (x, y)
Targets(x, y) == {<<x + d[1] * dist, y + d[2] * dist>> : d \in Directions, dist \in WalkSteps}
\* the cells that hold a bomb
BombCells(e) == {<<e.bombObjs[b].col, e.bombObjs[b].row>> : b \in SeqToSet(e.st.bombs)}
\* no tile under the cells stops the entity
TilesOpen(e, cells, canPassWalls) ==
  \A c \in cells :
    /\ isValidPosition(e.st.grid, c[1], c[2])
    /\ TileType(e.st.grid, c[1], c[2]) # "WALL"
    /\ canPassWalls \/ TileType(e.st.grid, c[1], c[2]) # "BLOCK"
\* no bomb stands under the cells other than on the cell the entity is on
NoBombInTheWay(e, cells, entity) ==
  (BombCells(e) \cap cells) \subseteq {<<entity.col, entity.row>>}

\* C18: a player or an enemy may take a position exactly when no tile stops
\* it there and every bomb its hitbox would touch stands on the cell the
\* entity is standing on already.
C18_BombBlocksUnlessStoodOn ==
  /\ \A i \in 1 .. Len(eng.st.players) :
       \A t \in Targets(eng.st.players[i].x, eng.st.players[i].y) :
         canMoveToPosition(eng, t[1], t[2], eng.st.players[i])
           <=> /\ TilesOpen(eng, CornerCells(Corners(t[1], t[2])), FALSE)
               /\ NoBombInTheWay(eng, CornerCells(Corners(t[1], t[2])), eng.st.players[i])
  /\ \A k \in 1 .. Len(eng.st.enemies) :
       \A t \in Targets(eng.st.enemies[k].x, eng.st.enemies[k].y) :
         canEnemyMoveTo(eng, t[1], t[2], eng.st.enemies[k])
           <=> /\ TilesOpen(eng, CornerCells(EnemyCorners(t[1], t[2])),
                            eng.st.enemies[k].canPassWalls)
               /\ NoBombInTheWay(eng, CornerCells(EnemyCorners(t[1], t[2])),
                                 eng.st.enemies[k])

\* the cells of the outer border of the grid
IsBorder(c) == c[1] = 0 \/ c[1] = GRID_WIDTH - 1 \/ c[2] = 0 \/ c[2] = GRID_HEIGHT - 1
\* the cells the k-th enemy has a corner on
EnemyCells(e, k) == CornerCells(EnemyCorners(e.st.enemies[k].x, e.st.enemies[k].y))
\* getNextGridPos(enemy) for each direction
NextCells(enemy) == {<<enemy.col + d[1], enemy.row + d[2]>> : d \in Directions}

\* C19: an enemy that passes walls never has a corner on a cell of the outer
\* border (a WALL), and may take any position whose tiles are no WALL, BLOCK
\* tiles included; any other enemy never has a corner on a WALL or a BLOCK
\* tile. The enemy AI's canEnemyWalkTo agrees: a BLOCK cell can be walked to
\* by the former only, a WALL cell by neither.
C19_GhostsPassBlocksOnly ==
  /\ \A k \in 1 .. Len(eng.st.enemies) :
       \A c \in EnemyCells(eng, k) :
         /\ isValidPosition(eng.st.grid, c[1], c[2])
         /\ ~IsBorder(c)
         /\ ~eng.st.enemies[k].canPassWalls
              => TileType(eng.st.grid, c[1], c[2]) \notin {"WALL", "BLOCK"}
  /\ \A k \in 1 .. Len(eng.st.enemies) :
       \A t \in Targets(eng.st.enemies[k].x, eng.st.enemies[k].y) :
         /\ (eng.st.enemies[k].canPassWalls
               /\ TilesOpen(eng, CornerCells(EnemyCorners(t[1], t[2])), TRUE))
              => canEnemyMoveTo(eng, t[1], t[2], eng.st.enemies[k])
         /\ canEnemyMoveTo(eng, t[1], t[2], eng.st.enemies[k])
              => TilesOpen(eng, CornerCells(EnemyCorners(t[1], t[2])),
                           eng.st.enemies[k].canPassWalls)
  /\ \A k \in 1 .. Len(eng.st.enemies) :
       \A c \in NextCells(eng.st.enemies[k]) :
         canEnemyWalkTo(eng, c, eng.st.enemies[k])
           <=> /\ TilesOpen(eng, {c}, eng.st.enemies[k].canPassWalls)
               /\ eng.st.enemies[k].canPassWalls \/ c \notin BombCells(eng)

\* the ghost has just moved onto a BLOCK tile, and the slime stands next to it
C19_Witness ==
  /\ mode = "move" /\ lastOp = "moveEnemy"
  /\ \E k \in 1 .. Len(eng.st.enemies) :
       /\ eng.st.enemies[k].canPassWalls
       /\ \E c \in EnemyCells(eng, k) : TileType(eng.st.grid, c[1], c[2]) = "BLOCK"
  /\ \E k \in 1 .. Len(eng.st.enemies) :
       /\ ~eng.st.enemies[k].canPassWalls
       /\ \E t \in Targets(eng.st.enemies[k].x, eng.st.enemies[k].y) :
            /\ \E c \in CornerCells(EnemyCorners(t[1], t[2])) :
                 TileType(eng.st.grid, c[1], c[2]) = "BLOCK"
            /\ ~canEnemyMoveTo(eng, t[1], t[2], eng.st.enemies[k])

(***************************************************************************)
(* Properties of findPath                                                  *)
(***************************************************************************)
\* a sequence of cells leading from start to end by steps to a neighbor
IsPathFromTo(path, start, end) ==
  /\ path # <<>> /\ path[1] = start /\ path[Len(path)] = end
  /\ \A i \in 1 .. Len(path) - 1 : manhattanDistance(path[i], path[i + 1]) = 1

\* C20: every call of findPath returns, and what it returns is the empty
\* path or a path from start to end.
C20_FindPathTerminates ==
  /\ <>(search.pc = "returned")
  /\ [](search.pc = "returned"
          => \/ search.path = <<>>
             \/ IsPathFromTo(search.path, search.start, search.end))

(***************************************************************************)
(* Properties of remote bombs                                              *)
(***************************************************************************)
\* a chain-reaction callback for the bomb is pending (setTimeout(..., 100))
ChainPending(r, id) ==
  \E i \in 1 .. Len(timers) :
    timers[i].room = r /\ timers[i].bomb = id /\ timers[i].delay = 100

\* C21: on the server a bomb of type remote leaves room.bombs of a room that
\* stays only through a request (detonate_bomb of its owner) or through a
\* chain reaction, never through elapsed time.
C21_RemoteBombHasNoCountdown ==
  [][\A r \in RoomIds :
       (rooms[r] # NoRoom /\ rooms'[r] # NoRoom) =>
         \A i \in 1 .. Len(rooms[r].bombs) :
           LET b == rooms[r].bombs[i] IN
             (b.type = "remote" /\ ~MapHas(rooms'[r].bombs, b.id)) =>
               \/ lastOp' = "request"
               \/ ChainPending(r, b.id)]_vars

(***************************************************************************)
(* Properties of explosions                                                *)
(***************************************************************************)
\* the cell i steps from c in direction d
Step(c, d, i) == <<c[1] + d[1] * i, c[2] + d[2] * i>>

\* the cells of the four arms of length range around c
ArmCells(c, range) == {Step(c, d, i) : d \in Directions, i \in 1 .. range}

\* the value of a cell of the grid the explosion found
Before(t) ==
  IF fcall.side = "client" THEN TileType(fcall.before, t[1], t[2])
  ELSE GridAt(fcall.before, t[1], t[2])
IsWall(t) == Before(t) = (IF fcall.side = "client" THEN "WALL" ELSE 1)
IsBlock(t) == Before(t) = (IF fcall.side = "client" THEN "BLOCK" ELSE 2)

\* the explosion that has just been made
Exploded == fcall.fn = "blast" /\ fcall.n > 0

\* C22: an explosion of range R whose arms hold only cells of the grid that
\* are neither wall nor block makes 1 + 4R hazard tiles, one on each cell of
\* the cross; with a wall within R in an arm, or a block nearer than R for a
\* bomb that does not pierce, it makes fewer.
C22_CrossOfHazards ==
  Exploded =>
    LET arms == ArmCells(fcall.centre, fcall.range) IN
      /\ (\A t \in arms : t \in GridCells /\ ~IsWall(t) /\ ~IsBlock(t))
            => /\ fcall.produced = 1 + 4 * fcall.range
               /\ fcall.hazards = {fcall.centre} \cup arms
      /\ (\E d \in Directions, i \in 1 .. fcall.range :
             LET t == Step(fcall.centre, d, i) IN
               /\ t \in GridCells
               /\ \/ IsWall(t)
                  \/ IsBlock(t) /\ ~fcall.piercing /\ i < fcall.range)
            => fcall.produced < 1 + 4 * fcall.range

\* an explosion of range 2 in the open has made its nine tiles on the server
C22_Witness ==
  /\ Exploded /\ fcall.side = "server"
  /\ fcall.centre = <<5, 5>> /\ fcall.range = 2
  /\ \A t \in ArmCells(fcall.centre, fcall.range) : ~IsWall(t) /\ ~IsBlock(t)
  /\ fcall.produced = 9

\* the steps within range in direction d at which the explosion found a block
BlockSteps(d) ==
  {i \in 1 .. fcall.range : Step(fcall.centre, d, i) \in GridCells
                              /\ IsBlock(Step(fcall.centre, d, i))}

\* the steps in direction d whose cell the explosion wrote
WrittenSteps(d) ==
  {i \in 1 .. fcall.range : Step(fcall.centre, d, i) \in fcall.written}

\* no wall stands between the bomb and step i in direction d
NoWallBefore(d, i) == \A j \in 1 .. i - 1 : ~IsWall(Step(fcall.centre, d, j))

\* in a direction, a bomb that does not pierce destroys at most one block,
\* the first within range, and makes no hazard beyond it
StopsAtFirstBlock(d) ==
  /\ Cardinality(WrittenSteps(d)) <= 1
  /\ \A i \in WrittenSteps(d) :
       /\ i \in BlockSteps(d) /\ \A j \in BlockSteps(d) : i <= j
       /\ \A j \in i + 1 .. fcall.range : Step(fcall.centre, d, j) \notin fcall.hazards

\* C23: in each direction a bomb that does not pierce destroys at most one
\* block, the first within range, and makes no hazard beyond it; a piercing
\* bomb destroys every block within range in that direction that no wall
\* separates from it.
C23_BlocksDestroyedPerDirection ==
  Exploded =>
    \A d \in Directions :
      IF fcall.piercing
        THEN \A i \in BlockSteps(d) :
               NoWallBefore(d, i) => Step(fcall.centre, d, i) \in fcall.written
        ELSE StopsAtFirstBlock(d)

\* C23 as stated: the piercing bomb destroys every block within range in the
\* direction, whatever stands before it.
C23_PiercingDestroysAllInRange ==
  Exploded =>
    \A d \in Directions :
      IF fcall.piercing
        THEN \A i \in BlockSteps(d) : Step(fcall.centre, d, i) \in fcall.written
        ELSE StopsAtFirstBlock(d)

\* a piercing bomb has destroyed two blocks in one direction
C23_Witness ==
  /\ Exploded /\ fcall.piercing
  /\ \E d \in Directions : Cardinality(WrittenSteps(d)) = 2

\* the cells of the border and of the even (row, col) intersections
WallPlaces ==
  {c \in GridCells : \/ c[1] = 0 \/ c[1] = GRID_WIDTH - 1
                     \/ c[2] = 0 \/ c[2] = GRID_HEIGHT - 1
                     \/ (c[1] % 2 = 0 /\ c[2] % 2 = 0)}

\* C24: on both sides every border cell and every cell at an even (row, col)
\* intersection is a wall when the grid is built and after every explosion
\* of a sequence, and an explosion writes only cells that held a block, which
\* it leaves empty.
C24_WallsStay ==
  fcall.fn = "blast" =>
    /\ \A c \in WallPlaces :
         fcall.tiles[c] = (IF fcall.side = "client" THEN "WALL" ELSE 1)
    /\ fcall.tiles = TilesOf(fcall.side, fcall.grid)
    /\ \A t \in fcall.written :
         /\ IsBlock(t)
         /\ fcall.tiles[t] = (IF fcall.side = "client" THEN "EMPTY" ELSE 0)

\* the second explosion of a sequence has destroyed a block next to the
\* border wall
C24_Witness ==
  /\ Exploded /\ fcall.n = 2
  /\ fcall.centre = <<5, 5>> /\ fcall.range = 3
  /\ <<5, 2>> \in fcall.written

(***************************************************************************)
(* Properties of bomb placement                                            *)
(***************************************************************************)
\* C25: placeBomb for a player whose activeBombs has reached maxBombs leaves
\* the game state (bombs, players, grid, explosions, enemies, score), the
\* Bomb objects, the pending callbacks and the events emitted as they were:
\* no bomb is made and no bombPlaced is emitted.
C25_PlaceBombAtCapChangesNothing ==
  [][lastOp' = "placeBomb:maxBombs" =>
       /\ eng'.st = eng.st
       /\ eng'.bombObjs = eng.bombObjs
       /\ eng'.timeouts = eng.timeouts
       /\ eng'.emitted = eng.emitted
       /\ eng'.nextBomb = eng.nextBomb]_vars

\* placeBomb has just run for a player with as many live bombs as maxBombs
C25_Witness ==
  /\ lastOp = "placeBomb:maxBombs"
  /\ \E i \in 1 .. Len(eng.st.players) :
       /\ eng.st.players[i].activeBombs = eng.st.players[i].maxBombs
       /\ eng.st.players[i].activeBombs > 0

\* the player of socket s has as many live bombs in its room as maxBombs
AtBombCap(s) ==
  /\ IsPlayer(s) /\ RoomOf(s).gameState = "playing"
  /\ MapGet(RoomOf(s).players, s).isAlive
  /\ Len(SelectSeq(RoomOf(s).bombs, LAMBDA b : b.playerId = s))
       >= MapGet(RoomOf(s).players, s).maxBombs

\* C26: a place_bomb request of a player who has maxBombs live bombs in the
\* room changes no room, schedules no timer, and is answered to the sender
\* with an error message.
C26_PlaceBombOverCapIsAnError ==
  [][\A s \in Sockets :
       (AtBombCap(s) /\ lastOp' \in {PlaceReply(s, r) : r \in {"none", "bomb_placed", "error"}})
         => /\ rooms' = rooms /\ timers' = timers
            /\ lastOp' = PlaceReply(s, "error")]_vars

(***************************************************************************)
(* Properties of enemies                                                   *)
(***************************************************************************)
\* the four cells next to an enemy's cell
AdjacentCells(n) == {Step(<<n.col, n.row>>, d, 1) : d \in Directions}

\* the enemies of the engine e made since the next id was id
NewEnemies(e, id) == {e.st.enemies[k] : k \in {j \in 1 .. Len(e.st.enemies) : e.st.enemies[j].id >= id}}

\* C27: when a splitter dies with an EMPTY cell next to it, exactly two
\* enemies are spawned, and the new enemies are slimes on EMPTY cells next
\* to the splitter's, faster than the splitter and worth fewer points.
C27_SplitterSplitsInTwo ==
  [][\A k \in 1 .. Len(eng.st.enemies) :
       LET n == eng.st.enemies[k] IN
         (/\ n.type = "splitter"
          /\ \A j \in 1 .. Len(eng'.st.enemies) : eng'.st.enemies[j].id # n.id
          /\ eng'.loads = eng.loads
          /\ \E c \in AdjacentCells(n) :
                /\ isValidPosition(eng.st.grid, c[1], c[2])
                /\ TileType(eng.st.grid, c[1], c[2]) = "EMPTY")
           => /\ eng'.nextEnemy = eng.nextEnemy + 2
              /\ \A m \in NewEnemies(eng', eng.nextEnemy) :
                    /\ m.type = "slime"
                    /\ <<m.col, m.row>> \in AdjacentCells(n)
                    /\ TileType(eng.st.grid, m.col, m.row) = "EMPTY"
                    /\ m.speed > n.speed /\ m.points < n.points]_vars

(***************************************************************************)
(* Properties of the players' statistics across levels                     *)
(***************************************************************************)
\* what createPlayer gives a player for whom nothing is restored
DefaultStats == [maxBombs |-> BOMB_DEFAULT_COUNT, fireRange |-> BOMB_DEFAULT_RANGE,
                 bombType |-> "normal"]

\* the player who played with the given playerIndex before a level is loaded
\* (the last of state.players with that index)
Predecessor(st, playerIndex) ==
  LET mine == SelectSeq(st.players, LAMBDA p : p.playerIndex = playerIndex)
  IN mine[Len(mine)]

\* C28: the player created when a level is loaded has the defaults for
\* maxBombs, fireRange and bombType if the player of that index had died,
\* and, if that player was alive when the level before was completed, the
\* values the player had at the completion.
C28_StatsKeptUnlessDead ==
  [][lastOp' = "loadLevel" =>
       \A k \in Len(eng.st.players) + 1 .. Len(eng'.st.players) :
         LET p == eng'.st.players[k] IN
           (\E j \in 1 .. Len(eng.st.players) :
              eng.st.players[j].playerIndex = p.playerIndex)
             => IF Predecessor(eng.st, p.playerIndex).isDead
                  THEN Stats(p) = DefaultStats
                  ELSE eng.st.state = "victory" => Stats(p) = eng.saved[p.playerIndex]]_vars

(***************************************************************************)
(* Properties of level loading                                             *)
(***************************************************************************)
\* a call of GameComponent.loadLevel that did not start the level
LoadRefused == {"loadLevel:return", "loadLevel:TypeError"}

\* C29: a load of an unknown level id or of level data without its grid or
\* its enemies ends in a failure the caller sees (not in a plain return),
\* leaves the grid and the entities of the game state as they were, and
\* does not put the game into the playing state.
C29_AbsentLevelIsRefused ==
  [][lastOp' \in LoadRefused =>
       /\ lastOp' # "loadLevel:return"
       /\ eng'.st = eng.st
       /\ eng.st.state # "playing" => eng'.st.state # "playing"]_vars

(***************************************************************************)
(* Properties of the enemy AI                                              *)
(***************************************************************************)
\* C30: an update of an enemy that stands in a bomb's row or column within
\* its range turns the enemy, moving, into a direction whose cell two steps
\* away can be walked to and is not dangerous; if there is no such
\* direction, the update does to the enemy what its normal behaviour does.
C30_EvadeOrBehave ==
  [][\A k \in 1 .. Len(eng.st.enemies) :
       lastOp' = UpdateOp(k) /\ isInDanger(eng, eng.st.enemies[k]) =>
         IF SafeDirections(eng, eng.st.enemies[k]) # <<>>
           THEN /\ eng'.st.enemies[k].state = "moving"
                /\ \E i \in 1 .. Len(SafeDirections(eng, eng.st.enemies[k])) :
                     eng'.st.enemies[k].direction = SafeDirections(eng, eng.st.enemies[k])[i]
           ELSE \E expired \in BOOLEAN, dir \in RandomDirs(eng, eng.st.enemies[k]),
                   dist \in WalkSteps :
                  eng'.st.enemies[k] =
                    slimeBehavior(eng, k, expired, dir, dist).st.enemies[k]]_vars

(***************************************************************************)
(* Properties of generated maps                                            *)
(***************************************************************************)
Generated == fcall.fn = "map" /\ fcall.map # NoMap

\* C31: in the grid generateMapFallback returns, every cell of the four
\* corner spawn zones that is not a wall is Empty (0).
C31_SpawnZonesClear ==
  Generated =>
    \A c \in MapCells :
      IsSpawnZone(c[1], c[2], MapWidth, MapHeight) /\ fcall.map.grid[c] # 1
        => fcall.map.grid[c] = 0

(***************************************************************************)
(* Properties of the engine's bookkeeping across levels                    *)
(***************************************************************************)
\* the bombs of state.bombs a player owns that have not been detonated
LiveBombsOf(e, player) ==
  {b \in SeqToSet(e.st.bombs) :
     e.bombObjs[b].ownerId = player.id /\ ~e.bombObjs[b].isDetonated}

\* C32: the activeBombs of every player of the game state is the number of
\* that player's live bombs in the game state.
C32_ActiveBombsCountLiveBombs ==
  \A i \in 1 .. Len(eng.st.players) :
    eng.st.players[i].activeBombs = Cardinality(LiveBombsOf(eng, eng.st.players[i]))
\* C33: after GameComponent.loadLevel the game state holds the players
\* created by that call and no others, and players[0] is alive with
\* PLAYER_LIVES lives.
C33_LoadLeavesItsOwnPlayers ==
  [][lastOp' = "loadLevel" =>
       /\ Len(eng'.st.players) = (IF eng.isMultiplayer THEN 4 ELSE 1)
       /\ \A i \in 1 .. Len(eng'.st.players) : eng'.st.players[i].id >= eng.nextPlayer
       /\ ~eng'.st.players[1].isDead
       /\ eng'.st.players[1].lives = PLAYER_LIVES]_vars
\* C34: no step of the engine - no frame, however many fixed steps it
\* runs - emits levelComplete more than once.
C34_LevelCompleteOncePerLevel ==
  [][eng'.emitted.levelComplete <= eng.emitted.levelComplete + 1]_vars

(***************************************************************************)
(* Properties of game over and of the pause                                *)
(***************************************************************************)
\* C35: in a level, once the state has been set to game_over (gameOver has
\* been emitted), the state is neither victory nor playing.
C35_GameOverIsFinal ==
  eng.emitted.gameOver > 0 => eng.st.state \notin {"victory", "playing"}

\* C40: between pause() and resume() the bombs, the explosions, the
\* players, the enemies, the grid and the score of the game state do not
\* change.
C40_NothingHappensWhilePaused ==
  [][eng.st.isPaused /\ eng'.st.isPaused =>
       /\ eng'.st.bombs = eng.st.bombs
       /\ eng'.st.explosions = eng.st.explosions
       /\ eng'.st.players = eng.st.players
       /\ eng'.st.enemies = eng.st.enemies
       /\ eng'.st.grid = eng.st.grid
       /\ eng'.st.score = eng.st.score
       /\ \A b \in EngineBombIds : eng'.bombObjs[b].id # 0 /\ eng.bombObjs[b].id # 0
            => eng'.bombObjs[b].isDetonated = eng.bombObjs[b].isDetonated]_vars

(***************************************************************************)
(* Properties of the server's room registry                                *)
(***************************************************************************)
\* C36: playerRooms maps a socket to room r exactly when the socket is in
\* r's player map (so a socket is a member of at most one room).
C36_SocketIndexMatchesRooms ==
  \A s \in Sockets : \A r \in LiveRooms :
    MapHas(rooms[r].players, s) <=> playerRooms[s] = r
\* the place of a gameState on the way waiting -> playing -> finished
StateRank(gameState) ==
  IF gameState = "waiting" THEN 0 ELSE IF gameState = "playing" THEN 1 ELSE 2

\* C37: the gameState of a room never moves back, and a start_game that is
\* answered with game_started changes only a room that was waiting.
C37_GameStateMovesForward ==
  [][\A r \in LiveRooms :
       rooms'[r] # NoRoom =>
         /\ StateRank(rooms'[r].gameState) >= StateRank(rooms[r].gameState)
         /\ (\E s \in Sockets : lastOp' = StartReply(s, "game_started"))
              /\ rooms[r].gameState # "waiting" => rooms'[r] = rooms[r]]_vars

(***************************************************************************)
(* Properties of the rooms tables                                          *)
(***************************************************************************)
LobbyRooms == {r \in LobbyRoomIds : lobby.gameRooms[r] # NoRow}

\* C38: however the statements of concurrent rooms.join calls interleave, a
\* room has at most maxPlayers player rows and no two of them have the same
\* slot.
C38_ConcurrentJoinsKeepCapacityAndSlots ==
  \A r \in LobbyRooms :
    /\ Len(getRoomPlayers(lobby, r)) <= lobby.gameRooms[r].maxPlayers
    /\ \A i, j \in 1 .. Len(getRoomPlayers(lobby, r)) :
         i # j => getRoomPlayers(lobby, r)[i].playerSlot
                    # getRoomPlayers(lobby, r)[j].playerSlot

\* C39: the playerCount column of a room is the number of the room's player
\* rows.
C39_PlayerCountIsRowCount ==
  \A r \in LobbyRooms :
    lobby.gameRooms[r].playerCount = Len(getRoomPlayers(lobby, r))

=============================================================================
